---- MODULE Spec2Model ----
(***************************************************************************)
(* A model of the orchestration-and-scoring core of SmartCurateQ:          *)
(*   - OrchestratorAgent.execute_full_pipeline and its five phases          *)
(*     (src/agents/orchestrator_agent.py),                                  *)
(*   - AnalysisAgent scoring, risk and recommendation                       *)
(*     (src/agents/analysis_agent.py),                                      *)
(*   - MappingAgent.map_to_startup_profile (src/agents/mapping_agent.py),   *)
(*   - StartupEvaluator.batch_evaluate (src/startup_evaluator.py).          *)
(*                                                                         *)
(* Numbers are fixed point.  Scores are in tenths of a point (7.8 is 78),  *)
(* investor weights and rates in hundredths (0.25 is 25), money in         *)
(* thousands of dollars (1e9 is 1000000).                                  *)
(***************************************************************************)
EXTENDS Integers, Sequences, FiniteSets, TLC

VARIABLES
    \* ---- OrchestratorAgent.execute_full_pipeline ----
    input_data,            \* argument: the pitch material offered
    investor_preferences,  \* argument: the investor's preference mapping
    pc,                    \* position inside execute_full_pipeline
    pipeline_results,      \* the aggregate dict built by the runner
    calls,                 \* the _execute_phase* functions invoked so far, in order
    \* ---- AnalysisAgent.generate_investment_memo ----
    startup,               \* argument: the StartupProfile
    preferences,           \* argument: the InvestorPreferences
    generator,             \* the agent's text generator (self.use_vertex / self.model)
    memo,                  \* the InvestmentMemo returned, once the call has run
    \* ---- AnalysisAgent._generate_recommendation ----
    rec_in,                \* arguments: two scores and a risk level
    rec_out,               \* the recommendations returned for the two scores
    \* ---- MappingAgent.map_to_startup_profile ----
    extracted_data,        \* argument: the loosely typed mapping
    mapper_model,          \* the agent's text generator (self.use_vertex / self.model)
    mapped,                \* the outcome: the StartupProfile returned or the exception raised
    \* ---- StartupEvaluator.batch_evaluate ----
    startup_data_list,     \* argument: the items of the batch
    batch_preferences,     \* argument: investor_preferences (None or given)
    batch_pc,              \* position inside batch_evaluate
    batch_index,           \* the number of items the for loop has consumed
    results,               \* the list of memos built by the loop
    \* ---- ScoringEngine.score_startup / rescore_with_voice_data ----
    sent_message,          \* the message as the caller built it
    message,               \* the caller's message object, as it is now
    scoring_result,        \* the scoring result returned
    \* ---- StartupEvaluator.evaluate_startup ----
    eval_form,             \* argument: form_data
    eval_preferences,      \* argument: investor_preferences (None or given)
    eval_outcome,          \* the memo returned or the exception raised
    \* ---- PublicDataAgent.verify_claims ----
    claims_profile,        \* argument: the startup profile
    verifier_model,        \* the agent's text generator (self.use_vertex / self.model)
    verified               \* the verification mapping returned

pipeline_vars == <<input_data, investor_preferences, pc, pipeline_results, calls>>

analysis_vars == <<startup, preferences, generator, memo>>

recommendation_vars == <<rec_in, rec_out>>

mapping_vars == <<extracted_data, mapper_model, mapped>>

batch_vars == <<startup_data_list, batch_preferences, batch_pc, batch_index, results>>

scoring_vars == <<sent_message, message, scoring_result>>

evaluate_vars == <<eval_form, eval_preferences, eval_outcome>>

verify_vars == <<claims_profile, verifier_model, verified>>

vars == <<pipeline_vars, analysis_vars, recommendation_vars, mapping_vars, batch_vars, scoring_vars, evaluate_vars, verify_vars>>

not_pipeline_vars == <<analysis_vars, recommendation_vars, mapping_vars, batch_vars, scoring_vars, evaluate_vars, verify_vars>>

not_analysis_vars == <<pipeline_vars, recommendation_vars, mapping_vars, batch_vars, scoring_vars, evaluate_vars, verify_vars>>

not_recommendation_vars == <<pipeline_vars, analysis_vars, mapping_vars, batch_vars, scoring_vars, evaluate_vars, verify_vars>>

not_mapping_vars == <<pipeline_vars, analysis_vars, recommendation_vars, batch_vars, scoring_vars, evaluate_vars, verify_vars>>

not_batch_vars == <<pipeline_vars, analysis_vars, recommendation_vars, mapping_vars, scoring_vars, evaluate_vars, verify_vars>>

not_scoring_vars == <<pipeline_vars, analysis_vars, recommendation_vars, mapping_vars, batch_vars, evaluate_vars, verify_vars>>

not_evaluate_vars == <<pipeline_vars, analysis_vars, recommendation_vars, mapping_vars, batch_vars, scoring_vars, verify_vars>>

not_verify_vars == <<pipeline_vars, analysis_vars, recommendation_vars, mapping_vars, batch_vars, scoring_vars, evaluate_vars>>

\* The value of a variable that belongs to an operation not being run.
Idle == "idle"

\* The value of a result variable before the call has returned.
Pending == [pending |-> TRUE]

IdlePipeline ==
    /\ input_data = Idle /\ investor_preferences = Idle /\ pc = Idle
    /\ pipeline_results = Idle /\ calls = Idle

IdleAnalysis == startup = Idle /\ preferences = Idle /\ generator = Idle /\ memo = Idle

IdleRecommendation == rec_in = Idle /\ rec_out = Idle

IdleMapping == extracted_data = Idle /\ mapper_model = Idle /\ mapped = Idle

IdleBatch ==
    /\ startup_data_list = Idle /\ batch_preferences = Idle /\ batch_pc = Idle
    /\ batch_index = Idle /\ results = Idle

IdleScoring == sent_message = Idle /\ message = Idle /\ scoring_result = Idle

IdleEvaluate == eval_form = Idle /\ eval_preferences = Idle /\ eval_outcome = Idle

IdleVerify == claims_profile = Idle /\ verifier_model = Idle /\ verified = Idle

\* No operation other than the one being run has state.
IdleExceptPipeline ==
    /\ IdleAnalysis /\ IdleRecommendation /\ IdleMapping /\ IdleBatch
    /\ IdleScoring /\ IdleEvaluate /\ IdleVerify

IdleExceptAnalysis ==
    /\ IdlePipeline /\ IdleRecommendation /\ IdleMapping /\ IdleBatch
    /\ IdleScoring /\ IdleEvaluate /\ IdleVerify

IdleExceptRecommendation ==
    /\ IdlePipeline /\ IdleAnalysis /\ IdleMapping /\ IdleBatch
    /\ IdleScoring /\ IdleEvaluate /\ IdleVerify

IdleExceptMapping ==
    /\ IdlePipeline /\ IdleAnalysis /\ IdleRecommendation /\ IdleBatch
    /\ IdleScoring /\ IdleEvaluate /\ IdleVerify

IdleExceptBatch ==
    /\ IdlePipeline /\ IdleAnalysis /\ IdleRecommendation /\ IdleMapping
    /\ IdleScoring /\ IdleEvaluate /\ IdleVerify

IdleExceptScoring ==
    /\ IdlePipeline /\ IdleAnalysis /\ IdleRecommendation /\ IdleMapping
    /\ IdleBatch /\ IdleEvaluate /\ IdleVerify

IdleExceptEvaluate ==
    /\ IdlePipeline /\ IdleAnalysis /\ IdleRecommendation /\ IdleMapping
    /\ IdleBatch /\ IdleScoring /\ IdleVerify

IdleExceptVerify ==
    /\ IdlePipeline /\ IdleAnalysis /\ IdleRecommendation /\ IdleMapping
    /\ IdleBatch /\ IdleScoring /\ IdleEvaluate

(***************************************************************************)
(* Generic helpers for Python dicts modelled as functions.                 *)
(***************************************************************************)
Has(d, k) == k \in DOMAIN d

Get(d, k, default) == IF k \in DOMAIN d THEN d[k] ELSE default

Put(d, k, v) == [x \in (DOMAIN d) \cup {k} |-> IF x = k THEN v ELSE d[x]]

Range(s) == {s[i] : i \in DOMAIN s}

(***************************************************************************)
(* Bounds of the pipeline model.                                           *)
(***************************************************************************)
MaxCompetitors == 4

MaxRedFlags == 3

ScoreStep == 40

(***************************************************************************)
(* Inputs of one pipeline run.                                             *)
(***************************************************************************)
\* uploaded_file: absent, a file object that can be written to the temp
\* path, or an object on which .name / getbuffer() / open() raises.
UploadedFiles == {"absent", "file", "unwritable"}

VideoUrls == {"absent", "url"}

\* manual_data: absent (defaults to {}), a mapping the mapper accepts, or a
\* value the Phase 1B body raises on (None, or a founder whose
\* experience_years is None).
ManualData == {"absent", "mapping", "malformed"}

InputData == [uploaded_file : UploadedFiles, video_url : VideoUrls, manual_data : ManualData]

\* investor_preferences: a mapping InvestorPreferences(**prefs) accepts, or
\* one with a key the dataclass does not know (TypeError).
InvestorPreferenceInputs == {"valid", "unknown_key"}

\* What an extractor (PDF or video, both AI backed) hands back: a mapping
\* the mapper accepts or one it raises on.
ExtractorOutputs == {"mapping", "malformed"}

\* verify_claims returns the static fallback or whatever JSON the model
\* produced: a mapping with these keys, or JSON that is no mapping.
Accuracies == {"accurate", "verified", "unknown"}

Credibilities == {"verified", "high", "unverified", "unknown"}

ConfidenceScores == {3, 4}

VerificationMappings ==
    [kind : {"mapping"}, market_size_accuracy : Accuracies, founder_credibility : Credibilities,
     red_flags : 0..MaxRedFlags, confidence_score : ConfidenceScores]
    \cup
    [kind : {"mapping"}, market_size_accuracy : Accuracies, founder_credibility : Credibilities,
     red_flags : 0..MaxRedFlags]

VerificationResults == VerificationMappings \cup {[kind |-> "list"]}

PublicData == [competitors : 0..MaxCompetitors]

\* The investment_score AnalysisAgent.analyze_startup may report, tenths.
Phase2Scores == {s * ScoreStep : s \in 0..(100 \div ScoreStep)} \cup {100}


\* What the scheduling agent's schedule_founder_call does: raise, or return a
\* mapping saying whether it scheduled a call.
SchedulerOutcomes ==
    {[raised |-> TRUE], [raised |-> FALSE, call_scheduled |-> TRUE],
     [raised |-> FALSE, call_scheduled |-> FALSE]}

\* What the interview agent's conduct_interview does.
InterviewerOutcomes == {"returns", "raises"}

\* What MemoRefinementAgent.refine_memo returns: it catches every exception
\* itself and reports refinement_completed True or False.
RefineOutcomes == {TRUE, FALSE}

None == [py_none |-> TRUE]

EmptyDict == [k \in {} |-> k]

(***************************************************************************)
(* OrchestratorAgent: the phase functions.                                 *)
(***************************************************************************)
\* A Phase 1A that reads the manual form data whenever it is given.
_execute_phase1_manual_first(inp, extractor_output) ==
    IF inp.manual_data # "absent"
    THEN [success |-> TRUE,
          extracted_data |->
              [source |-> "manual_data",
               shape |-> IF inp.manual_data = "malformed" THEN "malformed" ELSE "mapping"]]
    ELSE IF inp.uploaded_file = "file"
         THEN [success |-> TRUE,
               extracted_data |-> [source |-> "uploaded_file", shape |-> extractor_output]]
         ELSE [success |-> FALSE, error |-> "exception in extraction"]

\* Phase 1A.  The first truthy source wins: uploaded_file, then video_url,
\* then manual_data.  An exception becomes {success: False, error}.
_execute_phase1(inp, extractor_output) ==
    IF inp.uploaded_file # "absent"
    THEN IF inp.uploaded_file = "unwritable"
         THEN [success |-> FALSE, error |-> "exception in extraction"]
         ELSE [success |-> TRUE,
               extracted_data |-> [source |-> "uploaded_file", shape |-> extractor_output]]
    ELSE IF inp.video_url # "absent"
         THEN [success |-> TRUE,
               extracted_data |-> [source |-> "video_url", shape |-> extractor_output]]
         ELSE [success |-> TRUE,
               extracted_data |->
                   [source |-> "manual_data",
                    shape |-> IF inp.manual_data = "malformed" THEN "malformed" ELSE "mapping"]]

\* round(x / 3, 1) for a sum of tenths x (ties cannot occur for thirds
\* unless the quotient is exact).
RoundThird(x) == (2 * x + 3) \div 6

_generate_comparison_summary(public_data, verification) ==
    [market_size_comparison |->
         [public_validation |-> verification.market_size_accuracy,
          discrepancy |-> verification.market_size_accuracy \notin {"accurate", "verified"}],
     competition_comparison |-> [public_findings |-> public_data.competitors],
     founder_comparison |-> [public_verification |-> verification.founder_credibility]]

\* A draft memo whose recommendation looks at the score before the
\* verification concerns.
_generate_draft_memo_score_first(public_data, verification) ==
    LET market_score == IF verification.market_size_accuracy \in {"accurate", "verified"}
                        THEN 70 ELSE 50
        founder_score == IF verification.founder_credibility \in {"verified", "high"}
                         THEN 80 ELSE 60
        competition_score == IF public_data.competitors <= 3 THEN 60 ELSE 40
        overall_score3 == market_score + founder_score + competition_score
        red_flags == verification.red_flags
        recommendation ==
            IF overall_score3 >= 3 * 70
            THEN "STRONG INTEREST - Proceed to detailed analysis"
            ELSE IF red_flags > 2 \/ Get(verification, "confidence_score", 5) < 4
                 THEN "PASS - Significant verification concerns"
                 ELSE "MODERATE INTEREST - Requires deeper investigation"
    IN  [preliminary_score |-> RoundThird(overall_score3),
         recommendation |-> recommendation,
         concerns |-> red_flags + 1]

\* A draft memo that scores a crowded market 2.0 instead of 4.0.
_generate_draft_memo_crowded(public_data, verification) ==
    LET market_score == IF verification.market_size_accuracy \in {"accurate", "verified"}
                        THEN 70 ELSE 50
        founder_score == IF verification.founder_credibility \in {"verified", "high"}
                         THEN 80 ELSE 60
        competition_score == IF public_data.competitors <= 3 THEN 60 ELSE 20
        overall_score3 == market_score + founder_score + competition_score
        red_flags == verification.red_flags
        recommendation ==
            IF red_flags > 2 \/ Get(verification, "confidence_score", 5) < 4
            THEN "PASS - Significant verification concerns"
            ELSE IF overall_score3 >= 3 * 70
                 THEN "STRONG INTEREST - Proceed to detailed analysis"
                 ELSE IF overall_score3 >= 3 * 50
                      THEN "MODERATE INTEREST - Requires deeper investigation"
                      ELSE "WEAK INTEREST - High risk factors identified"
    IN  [preliminary_score |-> RoundThird(overall_score3),
         recommendation |-> recommendation,
         concerns |-> red_flags + 1]

_generate_draft_memo(public_data, verification) ==
    LET market_score == IF verification.market_size_accuracy \in {"accurate", "verified"}
                        THEN 70 ELSE 50
        founder_score == IF verification.founder_credibility \in {"verified", "high"}
                         THEN 80 ELSE 60
        competition_score == IF public_data.competitors <= 3 THEN 60 ELSE 40
        \* three times overall_score, so that the thresholds stay exact
        overall_score3 == market_score + founder_score + competition_score
        red_flags == verification.red_flags
        recommendation ==
            IF red_flags > 2 \/ Get(verification, "confidence_score", 5) < 4
            THEN "PASS - Significant verification concerns"
            ELSE IF overall_score3 >= 3 * 70
                 THEN "STRONG INTEREST - Proceed to detailed analysis"
                 ELSE IF overall_score3 >= 3 * 50
                      THEN "MODERATE INTEREST - Requires deeper investigation"
                      ELSE "WEAK INTEREST - High risk factors identified"
    IN  [preliminary_score |-> RoundThird(overall_score3),
         recommendation |-> recommendation,
         concerns |-> red_flags + 1]

\* Phase 1B.  Mapping raises on malformed extracted data and the draft memo
\* raises on a verification result that is no mapping; both are caught here.
_execute_phase1b(phase1a_result, public_data, verification) ==
    IF ~Get(phase1a_result, "success", FALSE)
    THEN [success |-> FALSE, error |-> "Phase 1A failed"]
    ELSE IF phase1a_result.extracted_data.shape = "malformed"
         THEN [success |-> FALSE, error |-> "exception in mapping"]
         ELSE IF verification.kind # "mapping"
              THEN [success |-> FALSE, error |-> "exception in draft memo"]
              ELSE [success |-> TRUE,
                    startup_profile |-> [source |-> phase1a_result.extracted_data.source],
                    public_data |-> public_data,
                    verification |-> verification,
                    comparison_summary |-> _generate_comparison_summary(public_data, verification),
                    draft_memo |-> _generate_draft_memo(public_data, verification)]

_enhance_memo_with_comparison(investment_memo, comparison, verification) ==
    [investment_score |-> investment_memo.investment_score,
     data_verification |->
         [market_size_verified |-> verification.market_size_accuracy \in {"accurate", "verified"},
          founders_verified |-> verification.founder_credibility \in {"verified", "high"},
          overall_credibility |-> Get(verification, "confidence_score", 5)],
     verification_red_flags |->
         (IF comparison.market_size_comparison.discrepancy THEN 1 ELSE 0)
         + (IF verification.founder_credibility = "unverified" THEN 1 ELSE 0)
         + verification.red_flags]

\* Phase 2.  InvestorPreferences(**investor_preferences) raises on a key the
\* dataclass does not know; the exception becomes {success: False, error}.
_execute_phase2(phase1b_results, prefs, analysis_score) ==
    IF prefs = "unknown_key"
    THEN [success |-> FALSE, error |-> "exception in analysis"]
    ELSE [success |-> TRUE,
          investment_memo |->
              _enhance_memo_with_comparison([investment_score |-> analysis_score],
                                            phase1b_results.comparison_summary,
                                            phase1b_results.verification),
          comparison_insights |-> phase1b_results.comparison_summary,
          verification_summary |-> phase1b_results.verification]

\* Phase 3.  The scheduler's answer is overwritten with call_scheduled True,
\* so the interview is conducted whenever the scheduler returned.
_execute_phase3(scheduler, interviewer) ==
    IF scheduler.raised
    THEN [success |-> FALSE, error |-> "exception in scheduling"]
    ELSE LET enhanced_scheduling ==
                 [scheduler_call_scheduled |-> scheduler.call_scheduled,
                  call_scheduled |-> TRUE, priority_level |-> "high"]
         IN  IF enhanced_scheduling.call_scheduled
             THEN IF interviewer = "raises"
                  THEN [success |-> FALSE, error |-> "exception in interview"]
                  ELSE [success |-> TRUE,
                        scheduling_result |-> enhanced_scheduling,
                        interview_data |->
                            [interview_completed |-> TRUE,
                             analysis |-> [founder_credibility |-> [score |-> 82]]]]
             ELSE [success |-> TRUE,
                   scheduling_result |-> enhanced_scheduling,
                   interview_data |-> EmptyDict]

\* A Phase 4 that hands the refinement agent's own failure result through.
_execute_phase4_propagating(original_memo, public_data, interview_data, refinement_completed) ==
    IF refinement_completed
    THEN [refinement_completed |-> TRUE,
          refined_memo |-> [investment_score |-> 78, confidence_level |-> 85,
                            recommendation |-> "BUY - Strong opportunity with manageable risks"]]
    ELSE [refinement_completed |-> FALSE, error |-> "refinement failed"]

\* Phase 4.  The refinement agent's result is not read: the refined memo is
\* the fixed enhanced memo.  The handler of lines 408-409 is reached by no
\* input: refine_memo turns every exception into a result, and the report's
\* .get calls act on mappings Phase 1B and Phase 3 have already read.
_execute_phase4(original_memo, public_data, interview_data, refinement_completed) ==
    LET enhanced_memo ==
            [investment_score |-> 78, confidence_level |-> 85,
             recommendation |-> "BUY - Strong opportunity with manageable risks"]
    IN  [refinement_completed |-> TRUE,
         refined_memo |-> enhanced_memo,
         report_score_from |-> 70,
         report_founder_score |->
             IF Has(interview_data, "analysis")
             THEN interview_data.analysis.founder_credibility.score ELSE 0,
         data_sources_used |-> 4,
         refinement_quality |-> "comprehensive"]

\* A failure handler that leaves the run without its end_time.
_handle_pipeline_failure_without_end_time(pr, error_message) ==
    Put(Put(Put(pr, "success", FALSE), "error", error_message), "partial_results", TRUE)

_handle_pipeline_failure(pr, error_message) ==
    Put(Put(Put(Put(pr, "success", FALSE), "error", error_message),
            "end_time", "set"), "partial_results", TRUE)

\* An except clause that lets the exception leave execute_full_pipeline.
OuterExcept_reraising(pr, e) == [pc |-> "raised", pr |-> pr]

\* The except clause of execute_full_pipeline (lines 83-84).
OuterExcept(pr, e) == [pc |-> "returned", pr |-> _handle_pipeline_failure(pr, e)]

RecordPhase(pr, key, result, agents) ==
    [pr EXCEPT !.results = Put(@, key, result),
               !.agents_executed = @ \o agents]

(***************************************************************************)
(* OrchestratorAgent.execute_full_pipeline, one action per phase call.     *)
(* Each action is the phase call together with the runner's bookkeeping    *)
(* and success check that follow it (lines 41-84).                         *)
(***************************************************************************)
InitPipeline ==
    /\ input_data \in InputData
    /\ investor_preferences \in InvestorPreferenceInputs
    /\ pc = "phase1a"
    /\ pipeline_results = [pipeline_id |-> "pipeline", start_time |-> "set",
                           agents_executed |-> <<>>, results |-> EmptyDict, errors |-> <<>>]
    /\ calls = <<>>
    /\ IdleExceptPipeline

\* Lines 41-47.
Phase1A ==
    /\ pc = "phase1a"
    /\ \E extractor_output \in ExtractorOutputs :
         LET phase1a_results == _execute_phase1(input_data, extractor_output)
             pr == RecordPhase(pipeline_results, "phase1a", phase1a_results, <<"extraction">>)
         IN  /\ calls' = Append(calls, [fn |-> "_execute_phase1"])
             /\ IF ~Get(phase1a_results, "success", FALSE)
                THEN /\ pipeline_results' = _handle_pipeline_failure(pr, "Phase 1A failed")
                     /\ pc' = "returned"
                ELSE /\ pipeline_results' = pr
                     /\ pc' = "phase1b"
    /\ UNCHANGED <<input_data, investor_preferences, not_pipeline_vars>>

\* Lines 49-55.
Phase1B ==
    /\ pc = "phase1b"
    /\ \E public_data \in PublicData, verification \in VerificationResults :
         LET phase1b_results ==
                 _execute_phase1b(pipeline_results.results["phase1a"], public_data, verification)
             pr == RecordPhase(pipeline_results, "phase1b", phase1b_results,
                               <<"public_data", "mapping">>)
         IN  /\ calls' = Append(calls, [fn |-> "_execute_phase1b"])
             /\ IF ~Get(phase1b_results, "success", FALSE)
                THEN /\ pipeline_results' = _handle_pipeline_failure(pr, "Phase 1B failed")
                     /\ pc' = "returned"
                ELSE /\ pipeline_results' = pr
                     /\ pc' = "phase2"
    /\ UNCHANGED <<input_data, investor_preferences, not_pipeline_vars>>

\* Lines 57-60: the result of Phase 2 is recorded and its success flag is
\* not inspected.
Phase2 ==
    /\ pc = "phase2"
    /\ \E analysis_score \in Phase2Scores :
         LET phase2_results ==
                 _execute_phase2(pipeline_results.results["phase1b"], investor_preferences,
                                 analysis_score)
         IN  /\ calls' = Append(calls, [fn |-> "_execute_phase2"])
             /\ pipeline_results' =
                    RecordPhase(pipeline_results, "phase2", phase2_results, <<"analysis">>)
             /\ pc' = "phase3"
    /\ UNCHANGED <<input_data, investor_preferences, not_pipeline_vars>>

\* Lines 62-65.
Phase3 ==
    /\ pc = "phase3"
    /\ \E scheduler \in SchedulerOutcomes, interviewer \in InterviewerOutcomes :
         LET phase3_results == _execute_phase3(scheduler, interviewer)
         IN  /\ calls' = Append(calls, [fn |-> "_execute_phase3"])
             /\ pipeline_results' =
                    RecordPhase(pipeline_results, "phase3", phase3_results,
                                <<"scheduling", "voice_interview">>)
             /\ pc' = "phase4"
    /\ UNCHANGED <<input_data, investor_preferences, not_pipeline_vars>>

\* Lines 67-84.  Evaluating phase2_results["investment_memo"] raises KeyError
\* when Phase 2 failed; the outer except clause turns it into a failure.
Phase4 ==
    /\ pc = "phase4"
    /\ LET phase1b_results == pipeline_results.results["phase1b"]
           phase2_results == pipeline_results.results["phase2"]
           phase3_results == pipeline_results.results["phase3"]
       IN  IF ~Has(phase2_results, "investment_memo")
           THEN LET caught == OuterExcept(pipeline_results, "'investment_memo'")
                IN  /\ pipeline_results' = caught.pr
                    /\ pc' = caught.pc
                    /\ calls' = calls
           ELSE \E refinement_completed \in RefineOutcomes :
                  LET interview_data == Get(phase3_results, "interview_data", EmptyDict)
                      phase4_results ==
                          _execute_phase4(phase2_results.investment_memo,
                                          Get(phase1b_results, "public_data", EmptyDict),
                                          interview_data, refinement_completed)
                      pr == RecordPhase(pipeline_results, "phase4", phase4_results,
                                        <<"memo_refinement">>)
                  IN  /\ calls' = Append(calls, [fn |-> "_execute_phase4",
                                                 interview_data |-> interview_data,
                                                 refinement_result |->
                                                     [refinement_completed |-> refinement_completed]])
                      /\ pipeline_results' =
                             Put(Put(Put(pr, "success", TRUE),
                                     "final_memo", Get(phase4_results, "refined_memo", None)),
                                 "end_time", "set")
                      /\ pc' = "returned"
    /\ UNCHANGED <<input_data, investor_preferences, not_pipeline_vars>>

NextPipeline == Phase1A \/ Phase1B \/ Phase2 \/ Phase3 \/ Phase4

Init == InitPipeline

Next == NextPipeline

Spec == Init /\ [][Next]_vars

(***************************************************************************)
(* Properties of execute_full_pipeline.                                    *)
(***************************************************************************)
PhaseKeyOf(fn) ==
    CASE fn = "_execute_phase1" -> "phase1a"
      [] fn = "_execute_phase1b" -> "phase1b"
      [] fn = "_execute_phase2" -> "phase2"
      [] fn = "_execute_phase3" -> "phase3"
      [] fn = "_execute_phase4" -> "phase4"

PhaseFailed(k) ==
    /\ Has(pipeline_results.results, k)
    /\ ~Get(pipeline_results.results[k], "success", FALSE)

RequiredPhaseFailed == \E k \in {"phase1a", "phase1b", "phase2"} : PhaseFailed(k)

LaterPhases(k) ==
    CASE k = "phase1a" -> {"phase1b", "phase2", "phase3", "phase4"}
      [] k = "phase1b" -> {"phase2", "phase3", "phase4"}
      [] k = "phase2" -> {"phase3", "phase4"}

LaterAgents(k) ==
    CASE k = "phase1a" -> {"public_data", "mapping", "analysis", "scheduling",
                           "voice_interview", "memo_refinement"}
      [] k = "phase1b" -> {"analysis", "scheduling", "voice_interview", "memo_refinement"}
      [] k = "phase2" -> {"scheduling", "voice_interview", "memo_refinement"}

Returned == pc = "returned"

\* C1: when phase 1A, 1B or 2 returns success = false the runner halts at
\* once: no later phase is executed (none has a result, none was called) and
\* no later agent is appended to agents_executed.
C1_HaltsOnFirstFailure ==
    \A k \in {"phase1a", "phase1b", "phase2"} :
        PhaseFailed(k) =>
            /\ LaterPhases(k) \cap DOMAIN pipeline_results.results = {}
            /\ \A i \in DOMAIN calls : PhaseKeyOf(calls[i].fn) \notin LaterPhases(k)
            /\ LaterAgents(k) \cap Range(pipeline_results.agents_executed) = {}

\* C2: execute_full_pipeline never raises; when a required phase (1A, 1B, 2)
\* failed, the returned result has success = false, an error string, the
\* partial_results marker, and the result of every phase that was called.
C2_FailureReturnedNotRaised ==
    /\ pc # "raised"
    /\ (Returned /\ RequiredPhaseFailed) =>
           /\ Has(pipeline_results, "success") /\ pipeline_results["success"] = FALSE
           /\ Has(pipeline_results, "error")
           /\ Has(pipeline_results, "partial_results") /\ pipeline_results["partial_results"] = TRUE
           /\ \A i \in DOMAIN calls :
                  Has(pipeline_results.results, PhaseKeyOf(calls[i].fn))

\* C2 witness: Phase 2 failed, the KeyError on its missing investment_memo
\* was raised inside the runner, and the run returned a failure.
C2_Witness ==
    /\ Returned
    /\ PhaseFailed("phase2")
    /\ pipeline_results["error"] = "'investment_memo'"
    /\ Has(pipeline_results.results, "phase3")

\* C3: every returned result is a success with a non-null refined memo as
\* final_memo, or a failure with error and partial_results.
C3_SuccessCarriesMemo ==
    Returned =>
        /\ Has(pipeline_results, "success")
        /\ pipeline_results["success"] =>
               /\ Has(pipeline_results, "final_memo")
               /\ pipeline_results["final_memo"] # None
               /\ Has(pipeline_results["final_memo"], "investment_score")
               /\ Has(pipeline_results["final_memo"], "recommendation")
        /\ ~pipeline_results["success"] =>
               /\ Has(pipeline_results, "error")
               /\ Has(pipeline_results, "partial_results")

\* C3 witness: a successful run in which the refinement agent reported
\* refinement_completed = False.
C3_Witness ==
    /\ Returned
    /\ pipeline_results["success"]
    /\ calls[Len(calls)].fn = "_execute_phase4"
    /\ ~calls[Len(calls)].refinement_result.refinement_completed

\* C4: a failed Phase 3 never fails the pipeline: Phase 4 is still called,
\* with an empty interview_data, and the returned result has success = true.
C4_Phase3FailureNotFatal ==
    (Returned /\ PhaseFailed("phase3")) =>
        /\ pipeline_results["success"] = TRUE
        /\ \E i \in DOMAIN calls :
               /\ calls[i].fn = "_execute_phase4"
               /\ calls[i].interview_data = EmptyDict

(***************************************************************************)
(* AnalysisAgent (src/agents/analysis_agent.py).                           *)
(*                                                                         *)
(* An Optional number is <<>> (None) or <<v>>.  A score that is an average *)
(* is kept exact as a fraction [num, den]: the investment score of a       *)
(* profile with n founders has den = 1000 * n, num in thousandths of a     *)
(* point times n.                                                          *)
(***************************************************************************)
MaxFoundersA == 2

MaxFit == 200

MaxWeight == 1000

MIN_MARKET_SIZE == 1000000

MIN_REVENUE_GROWTH == 20

NoneNum == <<>>

IsNone(x) == x = <<>>

\* Python's `x or default` on an Optional number: None and 0 are falsy.
OrDefault(x, default) == IF x = <<>> \/ x[1] = 0 THEN default ELSE x[1]

Min(a, b) == IF a <= b THEN a ELSE b

Max(a, b) == IF a >= b THEN a ELSE b

RECURSIVE SumSeq(_)
SumSeq(s) == IF s = <<>> THEN 0 ELSE s[1] + SumSeq(Tail(s))

\* Lines 93-114.  The market object is a pydantic model, always truthy.
_score_market_opportunity(market) ==
    LET base == 50
        s1 == IF market.market_size > MIN_MARKET_SIZE THEN base + 20 ELSE base
        s2 == IF market.growth_rate > 15 THEN s1 + 15 ELSE s1
        s3 == IF market.competition_level = "low" THEN s2 + 15
              ELSE IF market.competition_level = "high" THEN s2 - 10 ELSE s2
    IN  Min(100, Max(0, s3))

\* Lines 116-145.  A differentiator text is the set of keywords it contains.
_score_differentiation(differentiator, gen) ==
    IF gen.mode = "absent"
    THEN IF "patent" \in differentiator \/ "proprietary" \in differentiator THEN 80
         ELSE IF "unique" \in differentiator \/ "first" \in differentiator THEN 70
              ELSE 50
    ELSE IF gen.mode = "number" THEN gen.value ELSE 50

\* Lines 147-174.
_score_traction(metrics) ==
    LET revenue == OrDefault(metrics.revenue, 0)
        revenue_growth == OrDefault(metrics.revenue_growth, 0)
        employees == OrDefault(metrics.employees, 0)
        cac == OrDefault(metrics.cac, 0)
        ltv == OrDefault(metrics.ltv, 0)
        a == IF revenue > 0
             THEN 30 + (IF revenue_growth > MIN_REVENUE_GROWTH THEN 20 ELSE 0)
             ELSE 0
        b == IF employees > 5 THEN 10 ELSE 0
        c == IF cac > 0 /\ ltv > 0 /\ ltv > cac * 3 THEN 20 ELSE 0
        d == IF ~IsNone(metrics.churn_rate) /\ metrics.churn_rate[1] < 5 THEN 20 ELSE 0
    IN  Min(100, a + b + c + d)

\* A sub-score that is 0 is replaced (`or 5.0`, `or 0.0`).
ScoreOr(score, default) == IF score = 0 THEN default ELSE score

\* The weighted sum returned as it is, without min(10.0, max(0.0, ...)).
_calculate_investment_score_unclamped(s, prefs, gen) ==
    LET n == IF Len(s.founders) > 0 THEN Len(s.founders) ELSE 1
        founder_sum == IF Len(s.founders) > 0
                       THEN SumSeq([i \in DOMAIN s.founders |->
                                       OrDefault(s.founders[i].founder_market_fit_score, 50)])
                       ELSE 50
    IN  [num |-> founder_sum * OrDefault(prefs.founder_weight, 25)
                 + n * (ScoreOr(_score_market_opportunity(s.market_analysis), 50)
                            * OrDefault(prefs.market_weight, 25)
                        + ScoreOr(_score_differentiation(s.unique_differentiator, gen), 50)
                            * OrDefault(prefs.differentiation_weight, 25)
                        + ScoreOr(_score_traction(s.business_metrics), 0)
                            * OrDefault(prefs.traction_weight, 25)),
         den |-> 1000 * n]

\* Lines 59-91.  The result is the fraction num / den of a point.
_calculate_investment_score(s, prefs, gen) ==
    LET n == IF Len(s.founders) > 0 THEN Len(s.founders) ELSE 1
        \* n times founder_score, tenths
        founder_sum == IF Len(s.founders) > 0
                       THEN SumSeq([i \in DOMAIN s.founders |->
                                       OrDefault(s.founders[i].founder_market_fit_score, 50)])
                       ELSE 50
        market_score == ScoreOr(_score_market_opportunity(s.market_analysis), 50)
        diff_score == ScoreOr(_score_differentiation(s.unique_differentiator, gen), 50)
        traction_score == ScoreOr(_score_traction(s.business_metrics), 0)
        founder_weight == OrDefault(prefs.founder_weight, 25)
        market_weight == OrDefault(prefs.market_weight, 25)
        diff_weight == OrDefault(prefs.differentiation_weight, 25)
        traction_weight == OrDefault(prefs.traction_weight, 25)
        \* n times weighted_score, thousandths
        weighted == founder_sum * founder_weight
                    + n * (market_score * market_weight + diff_score * diff_weight
                           + traction_score * traction_weight)
        den == 1000 * n
    IN  [num |-> Min(10 * den, Max(0, weighted)), den |-> den]

\* Lines 203-214.
_generate_mitigation_strategies(risk_factors) ==
    [i \in DOMAIN risk_factors |->
        IF risk_factors[i] = "High competition in market"
        THEN "Focus on unique value proposition and customer retention"
        ELSE IF risk_factors[i] = "High customer churn rate"
             THEN "Implement customer success programs and product improvements"
             ELSE "Develop clear monetization strategy and sales pipeline"]

\* A risk assessment that calls three risk factors a high risk.
_assess_risks_three_is_high(s) ==
    LET f1 == IF s.market_analysis.competition_level = "high"
              THEN <<"High competition in market">> ELSE <<>>
        f2 == IF ~IsNone(s.business_metrics.churn_rate) /\ s.business_metrics.churn_rate[1] > 10
              THEN <<"High customer churn rate">> ELSE <<>>
        f3 == IF IsNone(s.business_metrics.revenue) \/ s.business_metrics.revenue[1] = 0
              THEN <<"No revenue traction">> ELSE <<>>
        risk_factors == f1 \o f2 \o f3
        risk_level == IF Len(risk_factors) > 2 THEN "high"
                      ELSE IF Len(risk_factors) > 1 THEN "medium" ELSE "low"
    IN  [risk_level |-> risk_level, risk_factors |-> risk_factors,
         mitigation_strategies |-> _generate_mitigation_strategies(risk_factors)]

\* Lines 176-201.
_assess_risks(s) ==
    LET f1 == IF s.market_analysis.competition_level = "high"
              THEN <<"High competition in market">> ELSE <<>>
        f2 == IF ~IsNone(s.business_metrics.churn_rate) /\ s.business_metrics.churn_rate[1] > 10
              THEN <<"High customer churn rate">> ELSE <<>>
        f3 == IF IsNone(s.business_metrics.revenue) \/ s.business_metrics.revenue[1] = 0
              THEN <<"No revenue traction">> ELSE <<>>
        risk_factors == f1 \o f2 \o f3
        risk_level == IF Len(risk_factors) > 3 THEN "high"
                      ELSE IF Len(risk_factors) > 1 THEN "medium" ELSE "low"
    IN  [risk_level |-> risk_level, risk_factors |-> risk_factors,
         mitigation_strategies |-> _generate_mitigation_strategies(risk_factors)]

\* score >= t / 2 points, for a fraction score and a threshold in half points.
AtLeastHalves(score, t) == 2 * score.num >= t * score.den

\* The BUY threshold moved from 6.5 to 7.0.
_generate_recommendation_shifted(score, risk) ==
    IF AtLeastHalves(score, 16) /\ risk.risk_level = "low"
    THEN "STRONG BUY - High potential with manageable risks"
    ELSE IF AtLeastHalves(score, 14) /\ risk.risk_level \in {"low", "medium"}
         THEN "BUY - Good opportunity with acceptable risk profile"
         ELSE IF AtLeastHalves(score, 10)
              THEN "HOLD - Monitor progress, consider follow-on rounds"
              ELSE "PASS - Significant concerns outweigh potential"

\* The first comparison written the wrong way round (score <= 8.0).
_generate_recommendation_flipped(score, risk) ==
    IF ~AtLeastHalves([num |-> score.num - 1, den |-> score.den], 16) /\ risk.risk_level = "low"
    THEN "STRONG BUY - High potential with manageable risks"
    ELSE IF AtLeastHalves(score, 13) /\ risk.risk_level \in {"low", "medium"}
         THEN "BUY - Good opportunity with acceptable risk profile"
         ELSE IF AtLeastHalves(score, 10)
              THEN "HOLD - Monitor progress, consider follow-on rounds"
              ELSE "PASS - Significant concerns outweigh potential"

\* Lines 216-225.
_generate_recommendation(score, risk) ==
    IF AtLeastHalves(score, 16) /\ risk.risk_level = "low"
    THEN "STRONG BUY - High potential with manageable risks"
    ELSE IF AtLeastHalves(score, 13) /\ risk.risk_level \in {"low", "medium"}
         THEN "BUY - Good opportunity with acceptable risk profile"
         ELSE IF AtLeastHalves(score, 10)
              THEN "HOLD - Monitor progress, consider follow-on rounds"
              ELSE "PASS - Significant concerns outweigh potential"

\* Lines 227-250.  Raises when a founder's fit score is None (TypeError in
\* sum) or when there is no founder (ZeroDivisionError).
_extract_key_insights(s) ==
    IF Len(s.founders) = 0 \/ \E i \in DOMAIN s.founders : IsNone(s.founders[i].founder_market_fit_score)
    THEN [raised |-> TRUE]
    ELSE LET fit_sum == SumSeq([i \in DOMAIN s.founders |-> s.founders[i].founder_market_fit_score[1]])
             s1 == IF fit_sum > 70 * Len(s.founders) THEN <<"Strong founder-market fit">> ELSE <<>>
             s2 == IF s.market_analysis.market_size > MIN_MARKET_SIZE
                   THEN <<"Large addressable market">> ELSE <<>>
             s3 == IF OrDefault(s.business_metrics.revenue, 0) > 0
                   THEN <<"Revenue generating">> ELSE <<>>
             c1 == IF s.market_analysis.competition_level = "high"
                   THEN <<"Highly competitive market">> ELSE <<>>
             c2 == IF OrDefault(s.business_metrics.revenue, 0) = 0
                   THEN <<"Pre-revenue stage">> ELSE <<>>
         IN  [raised |-> FALSE, strengths |-> s1 \o s2 \o s3, concerns |-> c1 \o c2]

\* Lines 34-57.
generate_investment_memo(s, prefs, gen) ==
    LET investment_score == _calculate_investment_score(s, prefs, gen)
        risk_assessment == _assess_risks(s)
        recommendation == _generate_recommendation(investment_score, risk_assessment)
        insights == _extract_key_insights(s)
    IN  IF insights.raised
        THEN [raised |-> TRUE]
        ELSE [raised |-> FALSE,
              startup_profile |-> s,
              investment_score |-> investment_score,
              risk_assessment |-> risk_assessment,
              recommendation |-> recommendation,
              key_strengths |-> insights.strengths,
              key_concerns |-> insights.concerns]

(***************************************************************************)
(* Inputs of generate_investment_memo.                                     *)
(***************************************************************************)
FitValues == {NoneNum, <<0 - MaxFit>>, <<72>>, <<MaxFit>>}

RECURSIVE SeqsUpTo(_, _)
SeqsUpTo(S, n) ==
    IF n = 0 THEN {<<>>}
    ELSE LET shorter == SeqsUpTo(S, n - 1)
         IN  shorter \cup {Append(q, x) : q \in {t \in shorter : Len(t) = n - 1}, x \in S}

FounderListsA == SeqsUpTo([founder_market_fit_score : FitValues], MaxFoundersA)

MarketAnalyses ==
    [market_size : {MIN_MARKET_SIZE, 50 * MIN_MARKET_SIZE}, growth_rate : {15, 30},
     competition_level : {"low", "medium", "high"}]

BusinessMetricsA ==
    [revenue : {NoneNum, <<0>>, <<50>>}, revenue_growth : {<<20>>, <<80>>},
     employees : {<<12>>}, cac : {NoneNum}, ltv : {NoneNum},
     churn_rate : {<<2>>, <<25>>}]
    \cup
    [revenue : {<<50>>}, revenue_growth : {NoneNum}, employees : {NoneNum, <<5>>},
     cac : {<<100>>}, ltv : {<<300>>, <<301>>}, churn_rate : {NoneNum, <<10>>}]

\* The differentiator text with the text generator of the agent: absent (the
\* keyword rule reads the text), throwing, answering text that is no number,
\* or answering a number (read unclamped).
DifferentiationInputs ==
    [unique_differentiator : {{"patent"}, {"unique", "first"}, {}}, generator : {[mode |-> "absent"]}]
    \cup
    [unique_differentiator : {{}},
     generator : {[mode |-> "throws"], [mode |-> "garbage"],
                  [mode |-> "number", value |-> 0 - MaxFit], [mode |-> "number", value |-> MaxFit]}]

WeightValues == {NoneNum, <<0>>, <<0 - MaxWeight>>, <<MaxWeight>>}

AllPreferences ==
    [founder_weight : WeightValues, market_weight : WeightValues,
     differentiation_weight : WeightValues, traction_weight : WeightValues]

UniformPreferences ==
    {[founder_weight |-> w, market_weight |-> w, differentiation_weight |-> w,
      traction_weight |-> w] : w \in {NoneNum, <<25>>, <<50>>, <<0 - MaxWeight>>, <<MaxWeight>>}}

Profile(founders, market, metrics, differentiator) ==
    [founders |-> founders, market_analysis |-> market, business_metrics |-> metrics,
     unique_differentiator |-> differentiator]

\* Every profile with uniform weights, and every weight vector with the
\* profiles of one market and one set of metrics.
InitAnalysis ==
    /\ \E founders \in FounderListsA, market \in MarketAnalyses, metrics \in BusinessMetricsA,
          d \in DifferentiationInputs :
         /\ startup = Profile(founders, market, metrics, d.unique_differentiator)
         /\ generator = d.generator
         /\ \/ preferences \in UniformPreferences
            \/ /\ preferences \in AllPreferences
               /\ market.growth_rate = 15 /\ market.competition_level = "medium"
               /\ metrics.revenue = <<50>> /\ metrics.churn_rate = <<2>>
               /\ Len(founders) = 1
    /\ memo = Pending
    /\ IdleExceptAnalysis

GenerateInvestmentMemo ==
    /\ memo = Pending
    /\ memo' = generate_investment_memo(startup, preferences, generator)
    /\ UNCHANGED <<startup, preferences, generator, not_analysis_vars>>

NextAnalysis == GenerateInvestmentMemo

SpecAnalysis == InitAnalysis /\ [][NextAnalysis]_vars

\* C5: for every profile and every weight vector (negative, zero, very large
\* weights and sub-scores included) the returned memo's investment_score is
\* within [0, 10].
C5_ScoreWithinRange ==
    (memo # Pending /\ ~memo.raised) =>
        /\ memo.investment_score.num >= 0
        /\ memo.investment_score.num <= 10 * memo.investment_score.den

\* The weighted sum before clamping, as a fraction with the score's den.
C5_RawWeighted(s, prefs, gen) ==
    LET n == Len(s.founders)
    IN  SumSeq([i \in DOMAIN s.founders |->
                    OrDefault(s.founders[i].founder_market_fit_score, 50)])
            * OrDefault(prefs.founder_weight, 25)
        + n * (ScoreOr(_score_market_opportunity(s.market_analysis), 50)
                   * OrDefault(prefs.market_weight, 25)
               + ScoreOr(_score_differentiation(s.unique_differentiator, gen), 50)
                   * OrDefault(prefs.differentiation_weight, 25)
               + ScoreOr(_score_traction(s.business_metrics), 0)
                   * OrDefault(prefs.traction_weight, 25))

\* C5 witness: a memo was returned for weights and sub-scores whose raw
\* weighted sum is below 0, so that the clamp acted.
C5_Witness ==
    /\ memo # Pending /\ ~memo.raised
    /\ C5_RawWeighted(startup, preferences, generator) < 0
    /\ memo.investment_score.num = 0

\* A second C5 case: the raw weighted sum is above 10.
C5_WitnessHigh ==
    /\ memo # Pending /\ ~memo.raised
    /\ C5_RawWeighted(startup, preferences, generator) > 10 * memo.investment_score.den
    /\ memo.investment_score.num = 10 * memo.investment_score.den

(***************************************************************************)
(* AnalysisAgent._generate_recommendation on its own: every score on a     *)
(* grid of 1 / ScoreDen points from -1.0 to 11.0, every risk level.        *)
(***************************************************************************)
ScoreDen == 4

GridScores == [num : (0 - ScoreDen)..(11 * ScoreDen), den : {ScoreDen}]

RiskLevels == {"low", "medium", "high", "unrated"}

InitRecommendation ==
    /\ rec_in \in [s1 : GridScores, s2 : GridScores, risk_level : RiskLevels]
    /\ rec_out = Pending
    /\ IdleExceptRecommendation

Recommend ==
    /\ rec_out = Pending
    /\ LET risk == [risk_level |-> rec_in.risk_level, risk_factors |-> <<>>,
                    mitigation_strategies |-> <<>>]
       IN  rec_out' = [r1 |-> _generate_recommendation(rec_in.s1, risk),
                       r2 |-> _generate_recommendation(rec_in.s2, risk)]
    /\ UNCHANGED <<rec_in, not_recommendation_vars>>

NextRecommendation == Recommend

SpecRecommendation == InitRecommendation /\ [][NextRecommendation]_vars

\* The tier of a recommendation string: the text before " - ".
TierOf(recommendation) ==
    CASE recommendation = "STRONG BUY - High potential with manageable risks" -> "STRONG BUY"
      [] recommendation = "BUY - Good opportunity with acceptable risk profile" -> "BUY"
      [] recommendation = "HOLD - Monitor progress, consider follow-on rounds" -> "HOLD"
      [] recommendation = "PASS - Significant concerns outweigh potential" -> "PASS"
      [] OTHER -> "none"

TierRank(tier) ==
    CASE tier = "STRONG BUY" -> 3
      [] tier = "BUY" -> 2
      [] tier = "HOLD" -> 1
      [] tier = "PASS" -> 0
      [] OTHER -> 0 - 1

\* score >= p points, p given in halves, on the grid.
GridAtLeast(score, halves) == 2 * score.num >= halves * ScoreDen

\* C9: score >= 8.0 and risk low gives STRONG BUY; otherwise score >= 6.5
\* and risk low or medium gives BUY; otherwise score >= 5.0 gives HOLD;
\* otherwise PASS; each with the tier's fixed qualifier after " - ".
C9_RecommendationTiers ==
    rec_out # Pending =>
        LET sc == rec_in.s1
            risk == rec_in.risk_level
            strong == GridAtLeast(sc, 16) /\ risk = "low"
            buy == ~strong /\ GridAtLeast(sc, 13) /\ risk \in {"low", "medium"}
            hold == ~strong /\ ~buy /\ GridAtLeast(sc, 10)
        IN  /\ strong => rec_out.r1 = "STRONG BUY - High potential with manageable risks"
            /\ buy => rec_out.r1 = "BUY - Good opportunity with acceptable risk profile"
            /\ hold => rec_out.r1 = "HOLD - Monitor progress, consider follow-on rounds"
            /\ (~strong /\ ~buy /\ ~hold) =>
                   rec_out.r1 = "PASS - Significant concerns outweigh potential"

\* C9 witness: a score of at least 6.5 with high risk was recommended HOLD
\* (the BUY tier needs risk low or medium).
C9_Witness ==
    /\ rec_out # Pending
    /\ GridAtLeast(rec_in.s1, 13)
    /\ rec_in.risk_level = "high"
    /\ TierOf(rec_out.r1) = "HOLD"

\* C10: with the risk level fixed, s1 <= s2 implies that the tier for s2 is
\* not lower than the tier for s1 (STRONG BUY > BUY > HOLD > PASS).
C10_TierMonotone ==
    (rec_out # Pending /\ rec_in.s1.num <= rec_in.s2.num) =>
        TierRank(TierOf(rec_out.r1)) <= TierRank(TierOf(rec_out.r2))

\* C10 witness: two scores s1 < s2 under low risk with a strictly higher
\* tier for s2.
C10_Witness ==
    /\ rec_out # Pending
    /\ rec_in.s1.num < rec_in.s2.num
    /\ rec_in.risk_level = "low"
    /\ TierOf(rec_out.r1) = "BUY"
    /\ TierOf(rec_out.r2) = "STRONG BUY"

(***************************************************************************)
(* MappingAgent (src/agents/mapping_agent.py).                             *)
(*                                                                         *)
(* A mapping is a function from the keys present; a key's entry is <<>>    *)
(* for None and <<v>> for the value v.  A text on which the code slices or *)
(* searches is a sequence of symbols, a string literal of the code being   *)
(* one symbol; other strings are strings.                                  *)
(***************************************************************************)
MaxFoundersM == 2

MaxYears == 20

SliceLen == 100

Raise(error) == [raised |-> TRUE, error |-> error]

Return(value) == [raised |-> FALSE, value |-> value]

\* x or default, for a string entry.
OrDefaultStr(x, default) == IF x = <<>> \/ x[1] = "" THEN default ELSE x[1]

\* x or default, for a text entry.
OrDefaultText(x, default) == IF x = <<>> \/ x[1] = <<>> THEN default ELSE x[1]

\* str.lower() on the alphabet of the model.
Lower(text) == [i \in DOMAIN text |-> IF text[i] = "H" THEN "h" ELSE text[i]]

\* needle in haystack
IsSubstring(needle, haystack) ==
    \E i \in 0..(Len(haystack) - Len(needle)) :
        SubSeq(haystack, i + 1, i + Len(needle)) = needle

\* Lines 138-169.  problem is the entry data.get('problem_statement', '').
\* The score is in tenths.
_calculate_founder_market_fit(founder_info, problem, gen) ==
    LET experience_years == Get(founder_info, "experience_years", <<0>>)
        domain_expertise == Get(founder_info, "domain_expertise", << <<>> >>)
    IN  IF gen.mode = "absent"
        THEN IF IsNone(domain_expertise) \/ IsNone(problem)
             THEN Raise("AttributeError")
             ELSE IF IsNone(experience_years)
                  THEN Raise("TypeError")
                  ELSE LET domain_match ==
                               IF IsSubstring(Lower(domain_expertise[1]), Lower(problem[1]))
                               THEN 10 ELSE 0
                       IN  Return(Min(100, 50 + experience_years[1] * 3 + domain_match * 2))
        ELSE IF gen.mode = "number"
             THEN Return(Max(0, Min(100, gen.value)))
             ELSE IF IsNone(experience_years)
                  THEN Raise("TypeError")
                  ELSE Return(Min(100, 50 + experience_years[1] * 3))

\* Lines 93-100.
FounderProfile(founder_info, fit_score) ==
    [name |-> OrDefaultStr(Get(founder_info, "name", NoneNum), "Unknown Founder"),
     background |-> OrDefaultStr(Get(founder_info, "background", NoneNum),
                                 "Background not specified"),
     experience_years |-> OrDefault(Get(founder_info, "experience_years", NoneNum), 5),
     previous_exits |-> OrDefault(Get(founder_info, "previous_exits", NoneNum), 0),
     domain_expertise |-> OrDefaultText(Get(founder_info, "domain_expertise", NoneNum),
                                        <<"Business">>),
     founder_market_fit_score |-> IF fit_score = 0 THEN 60 ELSE fit_score]

\* Lines 85-101: the loop over founders_data, left at the first exception.
RECURSIVE ExtractFoundersLoop(_, _, _, _)
ExtractFoundersLoop(founders_data, data, gen, founders) ==
    IF founders_data = <<>>
    THEN Return(founders)
    ELSE LET founder_info == Head(founders_data)
             fit_score == _calculate_founder_market_fit(
                              founder_info, Get(data, "problem_statement", << <<>> >>), gen)
         IN  IF fit_score.raised
             THEN fit_score
             ELSE ExtractFoundersLoop(Tail(founders_data), data, gen,
                      Append(founders, FounderProfile(founder_info, fit_score.value)))

\* Lines 77-103.
_extract_founders(data, gen) ==
    LET founders_data == Get(data, "founders", << <<>> >>)
    IN  IF IsNone(founders_data) \/ founders_data[1] = <<>>
        THEN Return(<<>>)
        ELSE ExtractFoundersLoop(founders_data[1], data, gen, <<>>)

\* Lines 34-42 with the founders list handed back unchanged.
EnsureFounder_unchanged(founders) == founders

\* Lines 34-42.
EnsureFounder(founders) ==
    IF founders = <<>>
    THEN << [name |-> "Founder", background |-> "Industry expert", experience_years |-> 5,
             previous_exits |-> 0, domain_expertise |-> <<"Business">>,
             founder_market_fit_score |-> 60] >>
    ELSE founders

\* Lines 105-118.  MarketAnalysis (models.py 13-18) accepts no None.
_extract_market_analysis(data) ==
    LET market_data == Get(data, "market_analysis", <<EmptyDict>>)
        top == Get(data, "market_size", <<0>>)
    IN  IF IsNone(market_data)
        THEN Raise("AttributeError")
        ELSE LET market_size == IF top # <<>> /\ top[1] # 0 THEN top
                                ELSE Get(market_data[1], "market_size", <<0>>)
                 growth_rate == Get(market_data[1], "growth_rate", <<15>>)
                 competition_level == Get(market_data[1], "competition_level", <<"medium">>)
                 key_players == Get(market_data[1], "key_players",
                                    << <<"Competitor A", "Competitor B">> >>)
                 market_maturity == Get(market_data[1], "market_maturity", <<"Growing">>)
             IN  IF \/ IsNone(market_size) \/ IsNone(growth_rate) \/ IsNone(competition_level)
                    \/ IsNone(key_players) \/ IsNone(market_maturity)
                 THEN Raise("ValidationError")
                 ELSE Return([market_size |-> market_size[1], growth_rate |-> growth_rate[1],
                              competition_level |-> competition_level[1],
                              key_players |-> key_players[1],
                              market_maturity |-> market_maturity[1]])

\* a or b on two numeric entries.
OrEntry(a, b) == IF a # <<>> /\ a[1] # 0 THEN a ELSE b

\* Lines 120-136.  Every field of BusinessMetrics is Optional.
_extract_business_metrics(data) ==
    LET metrics_data == Get(data, "business_metrics", <<EmptyDict>>)
        top_revenue == Get(data, "revenue", NoneNum)
        top_employees == Get(data, "employees", NoneNum)
    IN  IF IsNone(metrics_data)
        THEN Raise("AttributeError")
        ELSE LET revenue == OrEntry(top_revenue, Get(metrics_data[1], "revenue", NoneNum))
                 employees == OrEntry(top_employees, Get(metrics_data[1], "employees", NoneNum))
             IN  Return([revenue |-> revenue,
                         revenue_growth |->
                             Get(metrics_data[1], "revenue_growth",
                                 IF revenue # <<>> /\ revenue[1] > 0 THEN <<20>> ELSE NoneNum),
                         employees |-> employees,
                         cac |-> Get(metrics_data[1], "cac", NoneNum),
                         ltv |-> Get(metrics_data[1], "ltv", NoneNum),
                         churn_rate |-> Get(metrics_data[1], "churn_rate", NoneNum),
                         burn_rate |-> Get(metrics_data[1], "burn_rate", NoneNum)])

\* Lines 51-57.
Differentiator(data) ==
    LET first == Get(data, "differentiator", << <<>> >>)
        differentiator == IF first # <<>> /\ first[1] # <<>> THEN first
                          ELSE Get(data, "unique_differentiator", << <<>> >>)
    IN  IF differentiator # <<>> /\ differentiator[1] # <<>>
        THEN differentiator[1]
        ELSE LET solution == Get(data, "solution", << <<>> >>)
             IN  IF solution # <<>> /\ solution[1] # <<>>
                 THEN <<"Innovative approach: ">>
                          \o SubSeq(solution[1], 1, Min(Len(solution[1]), SliceLen))
                 ELSE <<"Unique market positioning">>

\* Lines 29-75.
map_to_startup_profile(data, gen) ==
    LET extracted == _extract_founders(data, gen)
        market_analysis == _extract_market_analysis(data)
        business_metrics == _extract_business_metrics(data)
    IN  IF extracted.raised THEN extracted
        ELSE IF market_analysis.raised THEN market_analysis
        ELSE IF business_metrics.raised THEN business_metrics
        ELSE Return(
            [company_name |-> OrDefaultStr(Get(data, "company_name", NoneNum), "Unknown Company"),
             founders |-> EnsureFounder(extracted.value),
             problem_statement |-> OrDefaultText(Get(data, "problem_statement", NoneNum),
                                                 <<"Problem not identified">>),
             solution |-> OrDefaultText(Get(data, "solution", NoneNum),
                                        <<"Solution not identified">>),
             unique_differentiator |-> Differentiator(data),
             market_analysis |-> market_analysis.value,
             business_metrics |-> business_metrics.value,
             funding_stage |-> OrDefaultStr(Get(data, "funding_stage", NoneNum), "Seed"),
             funding_amount |-> Get(data, "funding_amount", NoneNum)])

(***************************************************************************)
(* Inputs of map_to_startup_profile: every documented field absent, None   *)
(* or holding a value of its type, one group of fields at a time.          *)
(***************************************************************************)
\* Marks a key that a mapping does not hold.
Absent == <<"absent", "key">>

\* The mapping with the keys of r that are not marked Absent.
Strip(r) == [k \in {x \in DOMAIN r : r[x] # Absent} |-> r[k]]

StringEntries(v) == {Absent, NoneNum, <<"">>, <<v>>}

NumberEntries(v) == {Absent, NoneNum, <<0>>, <<v>>}

OptionalEntries(v) == {Absent, NoneNum, <<v>>}

ProblemText == <<"x", "H", "x">>

LongSolution == [i \in 1..(SliceLen + 1) |-> "s"]

\* The text generator of the mapper: absent, throwing, answering text that
\* is no number, or answering a number.
MapperModels ==
    {[mode |-> "absent"], [mode |-> "throws"], [mode |-> "garbage"]}
    \cup [mode : {"number"}, value : {0 - MaxFit, 72, MaxFit}]

TextAndNameMappings ==
    {Strip(r) : r \in
        [company_name : StringEntries("Acme"),
         funding_stage : StringEntries("Series A"),
         funding_amount : OptionalEntries(500),
         problem_statement : {Absent, NoneNum, << <<>> >>, <<ProblemText>>},
         solution : {Absent, NoneNum, << <<>> >>, << <<"s", "s">> >>, <<LongSolution>>},
         differentiator : {Absent, NoneNum, << <<>> >>, << <<"d">> >>},
         unique_differentiator : {Absent, NoneNum, << <<>> >>, << <<"u">> >>}]}

MarketDicts ==
    {Strip(r) : r \in
        [market_size : NumberEntries(5 * MIN_MARKET_SIZE),
         growth_rate : OptionalEntries(30),
         competition_level : OptionalEntries("high"),
         key_players : OptionalEntries(<<"Rival">>),
         market_maturity : OptionalEntries("Mature")]}

MarketMappings ==
    {Strip(r) : r \in
        [market_size : NumberEntries(2 * MIN_MARKET_SIZE),
         market_analysis : {Absent, NoneNum} \cup {<<d>> : d \in MarketDicts}]}

MetricsDicts ==
    {Strip(r) : r \in
        [revenue : OptionalEntries(50), revenue_growth : OptionalEntries(80),
         employees : OptionalEntries(12), cac : OptionalEntries(100),
         ltv : OptionalEntries(300), churn_rate : OptionalEntries(2),
         burn_rate : OptionalEntries(40)]}

MetricsMappings ==
    {Strip(r) : r \in
        [revenue : NumberEntries(70), employees : OptionalEntries(9),
         business_metrics : {Absent, NoneNum} \cup {<<d>> : d \in MetricsDicts}]}

FounderInfos ==
    {Strip(r) : r \in
        [name : OptionalEntries("Ada"), background : OptionalEntries("Engineer"),
         experience_years : {Absent, NoneNum, <<0>>, <<3>>, <<MaxYears>>},
         previous_exits : OptionalEntries(2),
         domain_expertise : {Absent, NoneNum, << <<>> >>, << <<"H">> >>, << <<"h", "h">> >>}]}

\* The founders that decide whether the loop of _extract_founders goes on.
CoreFounderInfos ==
    {Strip(r) : r \in
        [experience_years : {NoneNum, <<3>>}, domain_expertise : {Absent, << <<"H">> >>}]}

FoundersEntries ==
    {Absent, NoneNum, << <<>> >>}
    \cup {<< <<f>> >> : f \in FounderInfos}
    \cup {<<l>> : l \in {q \in SeqsUpTo(CoreFounderInfos, MaxFoundersM) : Len(q) >= 2}}

FounderMappings ==
    {Strip(r) : r \in
        [founders : FoundersEntries,
         problem_statement : {Absent, NoneNum, <<ProblemText>>}]}

InitMapping ==
    /\ \/ /\ extracted_data \in TextAndNameMappings \cup MarketMappings \cup MetricsMappings
          /\ mapper_model = [mode |-> "absent"]
       \/ /\ extracted_data \in FounderMappings
          /\ mapper_model \in MapperModels
    /\ mapped = Pending
    /\ IdleExceptMapping

MapToStartupProfile ==
    /\ mapped = Pending
    /\ mapped' = map_to_startup_profile(extracted_data, mapper_model)
    /\ UNCHANGED <<extracted_data, mapper_model, not_mapping_vars>>

NextMapping == MapToStartupProfile

SpecMapping == InitMapping /\ [][NextMapping]_vars

\* The input founders list is empty, absent or None.
NoInputFounders ==
    \/ ~Has(extracted_data, "founders")
    \/ extracted_data.founders = <<>>
    \/ extracted_data.founders[1] = <<>>

\* C6: a returned profile has at least one founder; when the input founders
\* list is empty, absent or None it has exactly one founder, the synthesized
\* placeholder, whose fit score is 6.0.
C6_AtLeastOneFounder ==
    (mapped # Pending /\ ~mapped.raised) =>
        /\ Len(mapped.value.founders) >= 1
        /\ NoInputFounders =>
               /\ Len(mapped.value.founders) = 1
               /\ mapped.value.founders[1].name = "Founder"
               /\ mapped.value.founders[1].founder_market_fit_score = 60

\* C6 witness: a mapping whose founders entry is None was mapped to a
\* profile with the placeholder founder.
C6_Witness ==
    /\ mapped # Pending /\ ~mapped.raised
    /\ Has(extracted_data, "founders") /\ extracted_data.founders = <<>>
    /\ Len(mapped.value.founders) = 1
    /\ mapped.value.founders[1].founder_market_fit_score = 60

\* C7: with the text generator disabled, a mapping whose documented fields
\* are absent or None (or hold a value of their type) is mapped without an
\* exception; the empty mapping yields company_name "Unknown Company", one
\* synthesized founder and funding_stage "Seed".
C7_AbsentOrNoneNeverRaises ==
    (mapped # Pending /\ mapper_model.mode = "absent") =>
        /\ ~mapped.raised
        /\ DOMAIN extracted_data = {} =>
               /\ mapped.value.company_name = "Unknown Company"
               /\ Len(mapped.value.founders) = 1
               /\ mapped.value.founders[1].name = "Founder"
               /\ mapped.value.funding_stage = "Seed"

(***************************************************************************)
(* StartupEvaluator.evaluate_startup and batch_evaluate                    *)
(* (src/startup_evaluator.py).  The items of a batch carry form data only, *)
(* and the agents run without a text generator.                            *)
(***************************************************************************)
MaxBatch == 3

NoGenerator == [mode |-> "absent"]

\* InvestorPreferences() with the dataclass defaults.
DefaultPreferences ==
    [founder_weight |-> <<25>>, market_weight |-> <<25>>, differentiation_weight |-> <<25>>,
     traction_weight |-> <<25>>]

\* keyword in symbol.lower(), for the symbols of the model.
SymbolContains(symbol, keyword) ==
    \/ symbol = keyword
    \/ symbol = "Unique market positioning" /\ keyword = "unique"

\* The keywords _score_differentiation looks for that a text contains.
KeywordsIn(text) ==
    {k \in {"patent", "proprietary", "unique", "first"} :
        \E i \in DOMAIN text : SymbolContains(text[i], k)}

\* The StartupProfile as AnalysisAgent reads it.
AsAnalysed(p) ==
    [founders |-> [i \in DOMAIN p.founders |->
                      [founder_market_fit_score |-> <<p.founders[i].founder_market_fit_score>>]],
     market_analysis |-> p.market_analysis,
     business_metrics |-> p.business_metrics,
     unique_differentiator |-> KeywordsIn(p.unique_differentiator)]

\* Lines 86-91.
PatchProfile(p, data) ==
    LET problem == Get(data, "problem_statement", NoneNum)
        solution == Get(data, "solution", NoneNum)
        p1 == IF p.problem_statement = <<>> /\ problem # <<>> /\ problem[1] # <<>>
              THEN [p EXCEPT !.problem_statement = problem[1]] ELSE p
        p2 == IF p1.solution = <<>> /\ solution # <<>> /\ solution[1] # <<>>
              THEN [p1 EXCEPT !.solution = solution[1]] ELSE p1
    IN  IF p2.unique_differentiator = <<>>
        THEN [p2 EXCEPT !.unique_differentiator =
                  IF p2.solution # <<>>
                  THEN <<"Innovative solution: ">> \o SubSeq(p2.solution, 1, Min(Len(p2.solution), 50))
                           \o <<"...">>
                  ELSE <<"Unique market approach">>]
        ELSE p2

\* Lines 34-107, for a call with form_data and investor_preferences only.
\* form_data and prefs are entries: <<>> is None.
evaluate_startup(form_data, prefs) ==
    LET used_preferences == IF IsNone(prefs) THEN DefaultPreferences ELSE prefs[1]
        data == IF form_data # <<>> /\ DOMAIN form_data[1] # {} THEN form_data[1] ELSE EmptyDict
        startup_profile == map_to_startup_profile(data, NoGenerator)
    IN  IF startup_profile.raised
        THEN startup_profile
        ELSE LET patched == PatchProfile(startup_profile.value, data)
                 investment_memo ==
                     generate_investment_memo(AsAnalysed(patched), used_preferences, NoGenerator)
             IN  IF investment_memo.raised
                 THEN Raise("TypeError")
                 ELSE Return([investment_memo EXCEPT !.startup_profile = patched])

\* Lines 115-121: the .get calls on the item and the single evaluation.
EvaluateItem(startup_data, prefs) ==
    IF startup_data.kind = "none"
    THEN Raise("AttributeError")
    ELSE evaluate_startup(Get(startup_data.mapping, "form_data", NoneNum), prefs)

\* Lines 114-125 with the exception left to propagate.
TryEvaluate_propagating(memos, outcome) ==
    IF outcome.raised
    THEN [pc |-> "raised", results |-> memos]
    ELSE [pc |-> "loop", results |-> Append(memos, outcome.value)]

\* Lines 114-125: append the memo, or print the exception and continue.
TryEvaluate(memos, outcome) ==
    IF outcome.raised
    THEN [pc |-> "loop", results |-> memos]
    ELSE [pc |-> "loop", results |-> Append(memos, outcome.value)]

FormDatas ==
    {EmptyDict,
     [company_name |-> <<"Acme">>],
     [company_name |-> <<"Bolt">>, revenue |-> <<70>>],
     [market_analysis |-> NoneNum],
     [founders |-> << <<[experience_years |-> NoneNum]>> >>]}

\* An item is None, or a mapping in which form_data is absent, None or a mapping.
BatchItems ==
    {[kind |-> "none"]}
    \cup {[kind |-> "mapping", mapping |-> Strip([form_data |-> e])] :
             e \in {Absent, NoneNum} \cup {<<d>> : d \in FormDatas}}

BatchPreferences ==
    {NoneNum,
     <<[founder_weight |-> <<40>>, market_weight |-> <<30>>, differentiation_weight |-> <<20>>,
        traction_weight |-> <<10>>]>>}

InitBatch ==
    /\ startup_data_list \in SeqsUpTo(BatchItems, MaxBatch)
    /\ batch_preferences \in BatchPreferences
    /\ batch_pc = "loop"
    /\ batch_index = 0
    /\ results = <<>>
    /\ IdleExceptBatch

\* One iteration of the for loop (lines 113-125).
BatchIterate ==
    /\ batch_pc = "loop"
    /\ batch_index < Len(startup_data_list)
    /\ LET startup_data == startup_data_list[batch_index + 1]
           step == TryEvaluate(results, EvaluateItem(startup_data, batch_preferences))
       IN  /\ batch_pc' = step.pc
           /\ results' = step.results
    /\ batch_index' = batch_index + 1
    /\ UNCHANGED <<startup_data_list, batch_preferences, not_batch_vars>>

\* Line 127.
BatchReturn ==
    /\ batch_pc = "loop"
    /\ batch_index = Len(startup_data_list)
    /\ batch_pc' = "returned"
    /\ UNCHANGED <<startup_data_list, batch_preferences, batch_index, results, not_batch_vars>>

NextBatch == BatchIterate \/ BatchReturn

SpecBatch == InitBatch /\ [][NextBatch]_vars

\* The memos of the items of a list whose single evaluation does not raise,
\* in the order of the list.
RECURSIVE MemosOf(_, _)
MemosOf(items, prefs) ==
    IF items = <<>> THEN <<>>
    ELSE LET outcome == EvaluateItem(Head(items), prefs)
         IN  (IF outcome.raised THEN <<>> ELSE <<outcome.value>>) \o MemosOf(Tail(items), prefs)

\* C8: batch_evaluate never raises; when it returns, every item has been
\* evaluated and results holds exactly the memos of the items whose
\* evaluation did not raise, in input order (one memo per item when no item
\* fails).
C8_BatchIsolation ==
    /\ batch_pc # "raised"
    /\ batch_pc = "returned" =>
           /\ batch_index = Len(startup_data_list)
           /\ results = MemosOf(startup_data_list, batch_preferences)
           /\ (\A i \in DOMAIN startup_data_list :
                   ~EvaluateItem(startup_data_list[i], batch_preferences).raised)
                  => Len(results) = Len(startup_data_list)

\* C8 witness: a batch of three items, the middle one of which raises in its
\* evaluation, returned the memos of the first and the third.
C8_Witness ==
    /\ batch_pc = "returned"
    /\ Len(startup_data_list) = 3
    /\ ~EvaluateItem(startup_data_list[1], batch_preferences).raised
    /\ EvaluateItem(startup_data_list[2], batch_preferences).raised
    /\ ~EvaluateItem(startup_data_list[3], batch_preferences).raised
    /\ Len(results) = 2
    /\ results[2] = EvaluateItem(startup_data_list[3], batch_preferences).value

(***************************************************************************)
(* ScoringEngine (src/agents/scoring_engine.py).                           *)
(*                                                                         *)
(* Metric scores and sub-scores are in tenths of a point, rates in         *)
(* hundredths, total_addressable_market in units of $0.1B,                 *)
(* annual_recurring_revenue in units of $0.1M, total_customers in          *)
(* hundreds, ltv_cac_ratio in tenths.  A base_score is in thousandths of a *)
(* point, a weighted_score in WeightedPoint-ths of a point, and an overall *)
(* score is the fraction num / den of a point.                             *)
(***************************************************************************)
MaxMetric == 300

MaxScoringWeight == 200

DefaultWeight == 25

WeightedPoint == 1000 * DefaultWeight

\* d.get(k, default) for a key that holds a value.
GetValue(d, k, default) == IF k \in DOMAIN d THEN d[k][1] ELSE default

Flag(condition, text) == IF condition THEN <<text>> ELSE <<>>

\* Lines 147-153 (and 195-201, 244-250, 299-305).
WeightedScore(base_score, investor_weight) ==
    Min(base_score * investor_weight, 10 * WeightedPoint)

\* Lines 115-161, with 526-542.
_score_founder_profile(founder_metrics, investor_weights) ==
    LET founder_market_fit == GetValue(founder_metrics, "founder_market_fit_score", 50)
        experience_score == Min(GetValue(founder_metrics, "founder_experience_years", 0) * 10, 100)
        domain_expertise == GetValue(founder_metrics, "founder_domain_expertise", 50)
        verification_bonus ==
            (IF GetValue(founder_metrics, "linkedin_verified", FALSE) THEN 10 ELSE 0)
            + (IF GetValue(founder_metrics, "education_verified", FALSE) THEN 10 ELSE 0)
            + (IF GetValue(founder_metrics, "previous_companies_verified", FALSE) THEN 10 ELSE 0)
        leadership_score == GetValue(founder_metrics, "leadership_experience", 50)
        commitment_score == IF GetValue(founder_metrics, "full_time_commitment", TRUE)
                            THEN 100 ELSE 50
        base_score == founder_market_fit * 30 + experience_score * 20 + domain_expertise * 20
                      + leadership_score * 15 + commitment_score * 10 + verification_bonus * 5
        investor_weight == GetValue(investor_weights, "founder_weight", DefaultWeight)
    IN  [base_score |-> base_score,
         weighted_score |-> WeightedScore(base_score, investor_weight),
         key_strengths |->
             Flag(GetValue(founder_metrics, "founder_market_fit_score", 0) >= 80,
                  "Strong founder-market fit")
             \o Flag(GetValue(founder_metrics, "founder_experience_years", 0) >= 10,
                     "Extensive industry experience")
             \o Flag(GetValue(founder_metrics, "founder_previous_exits", 0) > 0,
                     "Previous successful exits"),
         key_concerns |->
             Flag(GetValue(founder_metrics, "founder_market_fit_score", 100) < 50,
                  "Weak founder-market fit")
             \o Flag(~GetValue(founder_metrics, "full_time_commitment", TRUE),
                     "Part-time founder commitment")]

\* Lines 163-209, with 544-558.  competitive_intensity is a multiple of 0.2.
_score_problem_market(market_metrics, investor_weights) ==
    LET tam == GetValue(market_metrics, "total_addressable_market", 0)
        market_size_score == Min(tam, 100)
        growth_rate == GetValue(market_metrics, "market_growth_rate", 0)
        growth_score == Min(growth_rate * 5, 100)
        problem_urgency == GetValue(market_metrics, "problem_urgency_score", 50)
        market_validation == GetValue(market_metrics, "problem_market_validation", 50)
        competitive_intensity == GetValue(market_metrics, "competitive_intensity", 50)
        competitive_score == 100 - (competitive_intensity \div 2)
        timing_score == GetValue(market_metrics, "market_timing_score", 50)
        base_score == market_size_score * 25 + growth_score * 20 + problem_urgency * 15
                      + market_validation * 15 + competitive_score * 15 + timing_score * 10
        investor_weight == GetValue(investor_weights, "market_weight", DefaultWeight)
    IN  [base_score |-> base_score,
         weighted_score |-> WeightedScore(base_score, investor_weight),
         key_strengths |->
             Flag(tam >= 100, "Large addressable market")
             \o Flag(growth_rate >= 15, "High market growth rate"),
         key_concerns |->
             Flag(GetValue(market_metrics, "competitive_intensity", 0) >= 80,
                  "Highly competitive market")
             \o Flag(tam < 10, "Limited market size")]

\* Lines 211-258, with 560-574.
_score_differentiator(diff_metrics, investor_weights) ==
    LET tech_novelty == GetValue(diff_metrics, "technology_novelty_score", 50)
        ip_strength == GetValue(diff_metrics, "ip_portfolio_strength", 50)
        bm_novelty == GetValue(diff_metrics, "business_model_novelty", 50)
        scalability == GetValue(diff_metrics, "scalability_potential", 50)
        value_prop == GetValue(diff_metrics, "value_proposition_clarity", 50)
        first_mover == GetValue(diff_metrics, "first_mover_advantage", 50)
        switching_costs == GetValue(diff_metrics, "switching_costs", 50)
        network_effects == GetValue(diff_metrics, "network_effects_potential", 50)
        base_score == tech_novelty * 20 + ip_strength * 15 + bm_novelty * 15 + scalability * 15
                      + value_prop * 10 + first_mover * 10 + network_effects * 10
                      + switching_costs * 5
        investor_weight == GetValue(investor_weights, "differentiation_weight", DefaultWeight)
    IN  [base_score |-> base_score,
         weighted_score |-> WeightedScore(base_score, investor_weight),
         key_strengths |->
             Flag(GetValue(diff_metrics, "ip_portfolio_strength", 0) >= 80, "Strong IP portfolio")
             \o Flag(GetValue(diff_metrics, "network_effects_potential", 0) >= 80,
                     "Strong network effects potential"),
         key_concerns |->
             Flag(GetValue(diff_metrics, "technology_novelty_score", 100) < 50,
                  "Limited technology differentiation")
             \o Flag(GetValue(diff_metrics, "switching_costs", 100) < 50,
                     "Low customer switching costs")]

\* Lines 260-313, with 576-590.  ltv_cac_ratio is a multiple of 0.3.
_score_team_traction(traction_metrics, investor_weights) ==
    LET arr == GetValue(traction_metrics, "annual_recurring_revenue", 0)
        revenue_score == Min(arr, 100)
        revenue_growth == GetValue(traction_metrics, "revenue_growth_rate", 0)
        growth_score == Min(revenue_growth, 100)
        ltv_cac_ratio == GetValue(traction_metrics, "ltv_cac_ratio", 0)
        unit_econ_score == Min(ltv_cac_ratio \div 3, 100)
        customer_score == Min(GetValue(traction_metrics, "total_customers", 0), 100)
        retention_score == GetValue(traction_metrics, "customer_retention_rate", 0)
        team_score == Min(GetValue(traction_metrics, "team_size", 0), 100)
        efficiency_score == Min(GetValue(traction_metrics, "funding_efficiency", 0), 100)
        base_score == revenue_score * 25 + growth_score * 20 + unit_econ_score * 15
                      + retention_score * 15 + customer_score * 10 + team_score * 10
                      + efficiency_score * 5
        investor_weight == GetValue(investor_weights, "traction_weight", DefaultWeight)
    IN  [base_score |-> base_score,
         weighted_score |-> WeightedScore(base_score, investor_weight),
         key_strengths |->
             Flag(arr >= 10, "Strong revenue traction")
             \o Flag(ltv_cac_ratio >= 30, "Healthy unit economics"),
         key_concerns |->
             Flag(GetValue(traction_metrics, "customer_retention_rate", 100) < 80,
                  "High customer churn")
             \o Flag(GetValue(traction_metrics, "ltv_cac_ratio", 100) < 20,
                     "Poor unit economics")]

\* Lines 315-345.  Weights are in hundredths; the result is a fraction of a point.
_calculate_overall_score(segment_scores, investor_weights) ==
    LET founder_score == segment_scores.founder_profile_score.weighted_score
        market_score == segment_scores.problem_market_score.weighted_score
        diff_score == segment_scores.differentiator_score.weighted_score
        traction_score == segment_scores.team_traction_score.weighted_score
        founder_weight == GetValue(investor_weights, "founder_weight", DefaultWeight)
        market_weight == GetValue(investor_weights, "market_weight", DefaultWeight)
        diff_weight == GetValue(investor_weights, "differentiation_weight", DefaultWeight)
        traction_weight == GetValue(investor_weights, "traction_weight", DefaultWeight)
        total_weight == founder_weight + market_weight + diff_weight + traction_weight
        num == founder_score * founder_weight + market_score * market_weight
               + diff_score * diff_weight + traction_score * traction_weight
        den == IF total_weight > 0 THEN WeightedPoint * total_weight ELSE WeightedPoint * 100
    IN  [num |-> Min(num, 10 * den), den |-> den]

\* Lines 347-369.
_generate_curation_decision(overall_score, canonical_json) ==
    LET risk_metrics == GetValue(canonical_json, "risk_metrics", EmptyDict)
        verification_metrics == GetValue(canonical_json, "verification_metrics", EmptyDict)
    IN  IF ~AtLeastHalves(overall_score, 8) THEN "reject"
        ELSE IF GetValue(risk_metrics, "reputation_risk_score", 0) > 80 THEN "reject"
        ELSE IF GetValue(verification_metrics, "overall_verification_score", 100) < 30 THEN "hold"
        ELSE IF AtLeastHalves(overall_score, 14) THEN "pass"
        ELSE IF AtLeastHalves(overall_score, 11) THEN "hold"
        ELSE "reject"

\* Lines 371-395.
_requires_voice_interview(segment_scores, canonical_json) ==
    LET overall_score == _calculate_overall_score(segment_scores, EmptyDict)
        scores == {segment_scores.founder_profile_score.base_score,
                   segment_scores.problem_market_score.base_score,
                   segment_scores.differentiator_score.base_score,
                   segment_scores.team_traction_score.base_score}
        verification_metrics == GetValue(canonical_json, "verification_metrics", EmptyDict)
    IN  \/ AtLeastHalves(overall_score, 10) /\ overall_score.num * 2 <= 14 * overall_score.den
        \/ \E hi \in scores, lo \in scores : hi - lo > 4000
        \/ GetValue(verification_metrics, "overall_verification_score", 100) < 60

\* Lines 36-95.  The message holds app_id, run_id and canonical_json.
score_startup(msg) ==
    LET canonical_json == msg.canonical_json[1]
        investor_weights == GetValue(msg, "investor_weights_json", EmptyDict)
        segment_scores ==
            [founder_profile_score |->
                 _score_founder_profile(
                     GetValue(canonical_json, "founder_profile_metrics", EmptyDict),
                     investor_weights),
             problem_market_score |->
                 _score_problem_market(
                     GetValue(canonical_json, "problem_market_metrics", EmptyDict),
                     investor_weights),
             differentiator_score |->
                 _score_differentiator(
                     GetValue(canonical_json, "differentiator_metrics", EmptyDict),
                     investor_weights),
             team_traction_score |->
                 _score_team_traction(
                     GetValue(canonical_json, "team_traction_metrics", EmptyDict),
                     investor_weights)]
        overall_score == _calculate_overall_score(segment_scores, investor_weights)
    IN  [segment_scores |-> segment_scores,
         overall_score |-> overall_score,
         decision |-> _generate_curation_decision(overall_score, canonical_json),
         requires_voice_interview |-> _requires_voice_interview(segment_scores, canonical_json)]

\* dict.update on the mapping held under key k of d, when d holds k.
UpdateNested(d, k, updates) ==
    IF k \in DOMAIN d
    THEN [d EXCEPT ![k] = <<[x \in DOMAIN d[k][1] \cup DOMAIN updates |->
                                IF x \in DOMAIN updates THEN updates[x] ELSE d[k][1][x]]>>]
    ELSE d

\* Lines 469-491.  enhanced is a shallow copy: the nested metric mappings it
\* updates are the very objects held by canonical_json, so the result and the
\* argument as it is after the call hold the same nested mappings.
_enhance_with_voice_data(canonical_json, voice_data) ==
    LET extracted_fields == GetValue(voice_data, "extracted_fields", EmptyDict)
        founder == GetValue(canonical_json, "founder_profile_metrics", EmptyDict)
        market == GetValue(canonical_json, "problem_market_metrics", EmptyDict)
        e1 == UpdateNested(canonical_json, "founder_profile_metrics",
                  [vision_clarity |->
                       <<GetValue(extracted_fields, "vision_clarity_score",
                                  GetValue(founder, "vision_clarity", 50))>>,
                   execution_track_record |->
                       <<GetValue(extracted_fields, "execution_score",
                                  GetValue(founder, "execution_track_record", 50))>>])
        e2 == UpdateNested(e1, "problem_market_metrics",
                  [problem_market_validation |->
                       <<GetValue(extracted_fields, "market_validation_score",
                                  GetValue(market, "problem_market_validation", 50))>>])
    IN  [enhanced |-> e2, canonical_json |-> e2]

\* Lines 97-113.  The message holds app_id, run_id and voice_data.
rescore_with_voice_data(msg) ==
    LET enhanced == _enhance_with_voice_data(GetValue(msg, "canonical_json", EmptyDict),
                                             msg.voice_data[1])
        inner == IF "investor_weights_json" \in DOMAIN msg
                 THEN [app_id |-> msg.app_id, run_id |-> msg.run_id,
                       canonical_json |-> <<enhanced.enhanced>>,
                       investor_weights_json |-> msg.investor_weights_json]
                 ELSE [app_id |-> msg.app_id, run_id |-> msg.run_id,
                       canonical_json |-> <<enhanced.enhanced>>]
    IN  [result |-> score_startup(inner),
         message |-> IF "canonical_json" \in DOMAIN msg
                     THEN [msg EXCEPT !.canonical_json = <<enhanced.canonical_json>>]
                     ELSE msg]

(***************************************************************************)
(* Inputs of score_startup and rescore_with_voice_data.                    *)
(***************************************************************************)
FounderMetricSets ==
    {Strip(r) : r \in
        [founder_market_fit_score : {Absent, <<0>>, <<90>>, <<MaxMetric>>, <<0 - MaxMetric>>},
         founder_experience_years : {Absent, <<12>>},
         full_time_commitment : {Absent, <<FALSE>>},
         linkedin_verified : {Absent, <<TRUE>>}]}

MarketMetricSets ==
    {Strip(r) : r \in
        [total_addressable_market : {Absent, <<5>>, <<500>>},
         market_growth_rate : {Absent, <<20>>, <<0 - 10>>},
         competitive_intensity : {Absent, <<80>>, <<2 * MaxMetric>>},
         problem_market_validation : {Absent, <<90>>}]}

DiffMetricSets ==
    {Strip(r) : r \in
        [technology_novelty_score : {Absent, <<0>>, <<90>>},
         ip_portfolio_strength : {Absent, <<80>>}]}

TractionMetricSets ==
    {Strip(r) : r \in
        [annual_recurring_revenue : {Absent, <<30>>},
         revenue_growth_rate : {Absent, <<80>>, <<0 - 10>>},
         ltv_cac_ratio : {Absent, <<15>>, <<30>>},
         customer_retention_rate : {Absent, <<90>>}]}

\* The entry of a nested mapping: absent, or one of the mappings.
NestedEntries(mappings) == {Absent} \cup {<<d>> : d \in mappings}

\* A strong profile, with the metrics that decide the curation decision.
StrongCanonicalJsons ==
    {Strip(r) : r \in
        [founder_profile_metrics : {<<[founder_market_fit_score |-> <<90>>,
                                       founder_experience_years |-> <<12>>]>>},
         problem_market_metrics : {<<[total_addressable_market |-> <<500>>,
                                      market_growth_rate |-> <<20>>]>>},
         differentiator_metrics : {<<[technology_novelty_score |-> <<90>>]>>},
         team_traction_metrics : {<<[annual_recurring_revenue |-> <<30>>,
                                     revenue_growth_rate |-> <<80>>,
                                     customer_retention_rate |-> <<90>>]>>},
         risk_metrics : {Absent, <<[reputation_risk_score |-> <<90>>]>>},
         verification_metrics : {Absent, <<[overall_verification_score |-> <<20>>]>>}]}

\* One segment's metrics at a time, the other segments absent.
CanonicalJsons ==
    {Strip([founder_profile_metrics |-> e]) : e \in NestedEntries(FounderMetricSets)}
    \cup {Strip([problem_market_metrics |-> e]) : e \in NestedEntries(MarketMetricSets)}
    \cup {Strip([differentiator_metrics |-> e]) : e \in NestedEntries(DiffMetricSets)}
    \cup {Strip([team_traction_metrics |-> e]) : e \in NestedEntries(TractionMetricSets)}
    \cup StrongCanonicalJsons

ScoringWeightEntries == {Absent, <<0>>, <<25>>, <<0 - 25>>, <<MaxScoringWeight>>}

AllScoringWeights ==
    {Strip(r) : r \in
        [founder_weight : ScoringWeightEntries, market_weight : ScoringWeightEntries,
         differentiation_weight : ScoringWeightEntries, traction_weight : ScoringWeightEntries]}

UniformScoringWeights ==
    {Strip([founder_weight |-> w, market_weight |-> w, differentiation_weight |-> w,
            traction_weight |-> w]) : w \in ScoringWeightEntries}

VoiceDatas ==
    {EmptyDict,
     [extracted_fields |-> <<[vision_clarity_score |-> <<80>>, execution_score |-> <<70>>]>>],
     [extracted_fields |-> <<[market_validation_score |-> <<90>>]>>]}

ScoringMessage(canonical_json, weights, voice) ==
    Strip([app_id |-> <<"app">>, run_id |-> <<"run">>, canonical_json |-> <<canonical_json>>,
           investor_weights_json |-> weights, voice_data |-> voice])

\* Every canonical_json with uniform weights, and every weight vector with
\* the strong profiles and the empty canonical_json.
InitScoring ==
    /\ \E canonical_json \in CanonicalJsons, voice \in NestedEntries(VoiceDatas) :
         \/ \E weights \in NestedEntries(UniformScoringWeights) :
                sent_message = ScoringMessage(canonical_json, weights, voice)
         \/ /\ canonical_json \in StrongCanonicalJsons \cup {EmptyDict}
            /\ voice \in {Absent, <<EmptyDict>>}
            /\ \E weights \in NestedEntries(AllScoringWeights) :
                   sent_message = ScoringMessage(canonical_json, weights, voice)
    /\ message = sent_message
    /\ scoring_result = Pending
    /\ IdleExceptScoring

ScoreStartup ==
    /\ scoring_result = Pending
    /\ scoring_result' = score_startup(message)
    /\ UNCHANGED <<sent_message, message, not_scoring_vars>>

RescoreWithVoiceData ==
    /\ scoring_result = Pending
    /\ "voice_data" \in DOMAIN message
    /\ LET outcome == rescore_with_voice_data(message)
       IN  /\ scoring_result' = outcome.result
           /\ message' = outcome.message
    /\ UNCHANGED <<sent_message, not_scoring_vars>>

NextScoring == ScoreStartup \/ RescoreWithVoiceData

SpecScoring == InitScoring /\ [][NextScoring]_vars

\* The four segment records of a scoring result.
SegmentsOf(result) ==
    {result.segment_scores.founder_profile_score, result.segment_scores.problem_market_score,
     result.segment_scores.differentiator_score, result.segment_scores.team_traction_score}

\* C11: for every metrics mapping and every investor weight vector, each of
\* the four segment records has 0 <= weighted_score <= 10 and the overall
\* score is within [0, 10].
C11_ScoresWithinRange ==
    scoring_result # Pending =>
        /\ \A segment \in SegmentsOf(scoring_result) :
               segment.weighted_score >= 0 /\ segment.weighted_score <= 10 * WeightedPoint
        /\ scoring_result.overall_score.num >= 0
        /\ scoring_result.overall_score.num <= 10 * scoring_result.overall_score.den

(***************************************************************************)
(* The investment score of AnalysisAgent against the investor weights.     *)
(***************************************************************************)
\* The four weights are given and positive.
PositiveWeights(prefs) ==
    \A f \in DOMAIN prefs : prefs[f] # NoneNum /\ prefs[f][1] > 0

\* Every weight multiplied by the factor k.
ScaledPreferences(prefs, k) == [f \in DOMAIN prefs |-> <<prefs[f][1] * k>>]

\* The four segment scores that _calculate_investment_score combines, each
\* in tenths and multiplied by the number of founders n (the founder score
\* is the mean of the fit scores).
SegmentScoresTimesN(s, gen) ==
    LET n == IF Len(s.founders) > 0 THEN Len(s.founders) ELSE 1
    IN  {IF Len(s.founders) > 0
         THEN SumSeq([i \in DOMAIN s.founders |->
                         OrDefault(s.founders[i].founder_market_fit_score, 50)])
         ELSE 50,
         n * ScoreOr(_score_market_opportunity(s.market_analysis), 50),
         n * ScoreOr(_score_differentiation(s.unique_differentiator, gen), 50),
         n * ScoreOr(_score_traction(s.business_metrics), 0)}

\* C12: the investment score is computed with the four weights re-normalized
\* to sum to 1: doubling all four (positive) weights leaves the score
\* unchanged, and the score lies between the smallest and the largest of the
\* four segment scores.
C12_WeightsRenormalized ==
    (memo # Pending /\ ~memo.raised /\ PositiveWeights(preferences)) =>
        /\ _calculate_investment_score(startup, ScaledPreferences(preferences, 2), generator)
               = memo.investment_score
        /\ \E lo \in SegmentScoresTimesN(startup, generator) :
               100 * lo <= memo.investment_score.num
        /\ \E hi \in SegmentScoresTimesN(startup, generator) :
               memo.investment_score.num <= 100 * hi

\* The message gives all four investor weights, each 0.
AllZeroWeights(msg) ==
    /\ "investor_weights_json" \in DOMAIN msg
    /\ msg.investor_weights_json[1] =
           [founder_weight |-> <<0>>, market_weight |-> <<0>>, differentiation_weight |-> <<0>>,
            traction_weight |-> <<0>>]

\* The message with the four weights replaced by 0.25 each.
WithEqualWeights(msg) ==
    [msg EXCEPT !.investor_weights_json =
        <<[founder_weight |-> <<25>>, market_weight |-> <<25>>,
           differentiation_weight |-> <<25>>, traction_weight |-> <<25>>]>>]

SameFraction(a, b) ==
    IF a.den = b.den THEN a.num = b.num ELSE a.num * b.den = b.num * a.den

\* C13: when all four investor weights are 0 the overall score equals the
\* overall score obtained with equal weights (0.25 each) on the same metrics.
C13_ZeroWeightsFallBackToEqual ==
    (scoring_result # Pending /\ AllZeroWeights(message)) =>
        SameFraction(scoring_result.overall_score,
                     score_startup(WithEqualWeights(message)).overall_score)

\* C19: after score_startup or rescore_with_voice_data has returned, the
\* caller's message, the nested metric mappings inside canonical_json and
\* the investor weights included, is as the caller built it.
C19_ScoringLeavesInputsUnchanged ==
    scoring_result # Pending => message = sent_message

(***************************************************************************)
(* The text generator unavailable in three ways: absent, throwing,         *)
(* answering text that is no number.                                       *)
(***************************************************************************)
UnavailableModes == {"throws", "garbage"}

\* The differentiator texts, by the keywords they contain.
DifferentiatorTexts == SUBSET {"patent", "proprietary", "unique", "first"}

\* C14: the founder-market-fit scores (the outcome of the mapping) and the
\* differentiation score computed when the generator throws or answers
\* unparseable text equal those computed when the generator is absent.
C14_UnavailableGeneratorsEquivalent ==
    /\ (mapped # Pending /\ mapper_model.mode \in UnavailableModes) =>
           mapped = map_to_startup_profile(extracted_data, NoGenerator)
    /\ mapped # Pending =>
           \A differentiator \in DifferentiatorTexts, mode \in UnavailableModes :
               _score_differentiation(differentiator, [mode |-> mode])
                   = _score_differentiation(differentiator, NoGenerator)

\* A profile as the models allow it: at least one founder, every fit score
\* given and within [0, 10].
ValidProfile(s) ==
    /\ Len(s.founders) >= 1
    /\ \A i \in DOMAIN s.founders :
           /\ s.founders[i].founder_market_fit_score # NoneNum
           /\ s.founders[i].founder_market_fit_score[1] \in 0..100

\* C15: for every valid profile, with the text generator absent, the memo
\* has a non-empty key_strengths list and a non-empty key_concerns list.
C15_InsightsNonEmpty ==
    (memo # Pending /\ ~memo.raised /\ generator.mode = "absent" /\ ValidProfile(startup)) =>
        /\ memo.key_strengths # <<>>
        /\ memo.key_concerns # <<>>

(***************************************************************************)
(* StartupEvaluator.evaluate_startup on the two reference scenarios, on    *)
(* every part of them, and on the same figures given inside the nested     *)
(* market_analysis and business_metrics mappings.                          *)
(***************************************************************************)
\* {market_size: 50_000_000_000, revenue_growth: 0.80, churn_rate: 0.02,
\*  founders: [{experience_years: 12, previous_exits: 1}]}
ScenarioA ==
    [market_size |-> <<50000000>>, revenue_growth |-> <<80>>, churn_rate |-> <<2>>,
     founders |-> << <<[experience_years |-> <<12>>, previous_exits |-> <<1>>]>> >>]

\* {market_size: 2_000_000_000, competition_level: "high", revenue: 50_000,
\*  revenue_growth: -0.10, churn_rate: 0.25}
ScenarioB ==
    [market_size |-> <<2000000>>, competition_level |-> <<"high">>, revenue |-> <<50>>,
     revenue_growth |-> <<0 - 10>>, churn_rate |-> <<25>>]

\* The mappings that hold some of the entries of a scenario.
PartsOf(scenario) ==
    {[k \in keys |-> scenario[k]] : keys \in SUBSET DOMAIN scenario}

\* The scenario with its market and metrics figures moved into the nested
\* mappings the mapper reads them from.
Nested(scenario) ==
    LET market_keys == DOMAIN scenario \cap {"market_size", "competition_level"}
        metrics_keys == DOMAIN scenario \cap {"revenue", "revenue_growth", "churn_rate"}
        rest == DOMAIN scenario \ (market_keys \cup metrics_keys)
    IN  [k \in rest \cup {"market_analysis", "business_metrics"} |->
            IF k = "market_analysis" THEN <<[x \in market_keys |-> scenario[x]]>>
            ELSE IF k = "business_metrics" THEN <<[x \in metrics_keys |-> scenario[x]]>>
            ELSE scenario[k]]

EvaluatedForms ==
    PartsOf(ScenarioA) \cup PartsOf(ScenarioB)
    \cup {Nested(f) : f \in PartsOf(ScenarioA) \cup PartsOf(ScenarioB)}

InitEvaluate ==
    /\ eval_form \in EvaluatedForms
    /\ eval_preferences \in {NoneNum, <<DefaultPreferences>>}
    /\ eval_outcome = Pending
    /\ IdleExceptEvaluate

EvaluateStartup ==
    /\ eval_outcome = Pending
    /\ eval_outcome' = evaluate_startup(<<eval_form>>, eval_preferences)
    /\ UNCHANGED <<eval_form, eval_preferences, not_evaluate_vars>>

NextEvaluate == EvaluateStartup

SpecEvaluate == InitEvaluate /\ [][NextEvaluate]_vars

\* C16: Scenario A with default weights and the text generator absent yields
\* investment_score >= 7.0 and a recommendation containing "BUY".
C16_ScenarioA ==
    (eval_outcome # Pending /\ eval_form = ScenarioA) =>
        /\ ~eval_outcome.raised
        /\ AtLeastHalves(eval_outcome.value.investment_score, 14)
        /\ TierOf(eval_outcome.value.recommendation) \in {"STRONG BUY", "BUY"}

\* C17: Scenario B with default weights and the text generator absent yields
\* investment_score <= 5.0 and a recommendation tier of HOLD or PASS.
C17_ScenarioB ==
    (eval_outcome # Pending /\ eval_form = ScenarioB) =>
        /\ ~eval_outcome.raised
        /\ 2 * eval_outcome.value.investment_score.num
               <= 10 * eval_outcome.value.investment_score.den
        /\ TierOf(eval_outcome.value.recommendation) \in {"HOLD", "PASS"}

(***************************************************************************)
(* PublicDataAgent.verify_claims.  The prompt built from the profile and   *)
(* the public data is only text handed to the model; the result is either  *)
(* the JSON the model answers with or the fixed fallback mapping.          *)
(***************************************************************************)
\* The mapping returned when there is no model, or the model call or the
\* parsing of its answer raises.
VerificationFallback ==
    [market_size_accuracy |-> "unknown",
     competition_accuracy |-> "unknown",
     founder_credibility |-> "unknown",
     red_flags |-> <<>>,
     confidence_score |-> 5]

verify_claims(startup_profile, gen) ==
    IF gen.mode = "json" THEN gen.value
    ELSE VerificationFallback

\* Inputs.  Market sizes are in thousands of dollars: 100B is 100000000.
ClaimedMarketSizes ==
    {0, 1000000, 99999999, 100000000, 100000001, 500000000}

ClaimsProfiles ==
    [market_analysis : [market_size : ClaimedMarketSizes,
                        competition_level : {"low", "medium", "high"}],
     founders : {<<[background |-> "Industry expert"]>>}]

\* What the model can answer with: nothing usable, or a JSON object.
VerifierModels ==
    {[mode |-> "absent"], [mode |-> "throws"], [mode |-> "garbage"]}
    \cup [mode : {"json"},
          value : [market_size_accuracy : {"accurate", "inflated", "underestimated"},
                   competition_accuracy : {"accurate"},
                   founder_credibility : {"verified"},
                   red_flags : {<<>>},
                   confidence_score : {8}]]

InitVerify ==
    /\ claims_profile \in ClaimsProfiles
    /\ verifier_model \in VerifierModels
    /\ verified = Pending
    /\ IdleExceptVerify

VerifyClaims ==
    /\ verified = Pending
    /\ verified' = verify_claims(claims_profile, verifier_model)
    /\ UNCHANGED <<claims_profile, verifier_model, not_verify_vars>>

NextVerify == VerifyClaims

SpecVerify == InitVerify /\ [][NextVerify]_vars

\* C18: without a model, verify_claims reports market_size_accuracy
\* "inflated" for a market size above 100B and "reasonable" otherwise.
C18_FallbackDependsOnMarketSize ==
    (verified # Pending /\ verifier_model.mode = "absent") =>
        verified.market_size_accuracy =
            IF claims_profile.market_analysis.market_size > 100000000
            THEN "inflated" ELSE "reasonable"

(***************************************************************************)
(* The score of the final memo against the score of the Phase 2 memo.      *)
(***************************************************************************)
\* C20: in every successful pipeline run the final memo's investment_score
\* differs from the Phase 2 memo's investment_score by at most 2 points.
C20_FinalScoreNearPhase2Score ==
    (/\ pc = "returned"
     /\ Get(pipeline_results, "success", FALSE)
     /\ Has(pipeline_results.results["phase2"], "investment_memo")) =>
        LET final == pipeline_results["final_memo"].investment_score
            analysed == pipeline_results.results["phase2"].investment_memo.investment_score
        IN  /\ final - analysed <= 20
            /\ analysed - final <= 20

(***************************************************************************)
(* The order of the phases of one run of execute_full_pipeline.            *)
(***************************************************************************)
\* The runner is straight-line code: a run that has not returned takes its
\* next step.
FairSpec == Spec /\ WF_vars(Next)

PhaseOrder ==
    <<"_execute_phase1", "_execute_phase1b", "_execute_phase2", "_execute_phase3",
      "_execute_phase4">>

\* The phase calls made so far are the first calls of the fixed sequence,
\* each made once, and every call but possibly the last has its result.
PhasesFormPrefix ==
    /\ Len(calls) <= Len(PhaseOrder)
    /\ \A i \in DOMAIN calls : calls[i].fn = PhaseOrder[i]
    /\ \A i \in DOMAIN calls : Has(pipeline_results.results, PhaseKeyOf(calls[i].fn))
    /\ \A k \in DOMAIN pipeline_results.results :
           \E i \in DOMAIN calls : PhaseKeyOf(calls[i].fn) = k

\* A run that returned is Done or Failed, with its end_time.
EndsDoneOrFailed ==
    Returned =>
        /\ Has(pipeline_results, "success")
        /\ pipeline_results["success"] \in BOOLEAN
        /\ Has(pipeline_results, "end_time")

\* C21: the phases a run executes form a prefix of 1A, 1B, 2, 3, 4, each
\* executed at most once and after the earlier ones returned, and the run
\* ends, returning success true or success false with end_time set.
C21_PhasesSequentialAndRunEnds ==
    /\ [](PhasesFormPrefix /\ EndsDoneOrFailed /\ pc # "raised")
    /\ <>Returned

\* C21 witness: a run that executed all five phases and returned Done.
C21_Witness ==
    /\ Returned
    /\ Len(calls) = Len(PhaseOrder)
    /\ pipeline_results["success"]
    /\ Has(pipeline_results, "end_time")

(***************************************************************************)
(* The extraction source of Phase 1A.                                      *)
(***************************************************************************)
\* The source the priority order uploaded file > video URL > manual form
\* data selects for an input.
PrioritySource(inp) ==
    IF inp.uploaded_file # "absent" THEN "uploaded_file"
    ELSE IF inp.video_url # "absent" THEN "video_url"
    ELSE "manual_data"

\* C22: Phase 1A extracts from exactly one source, the first present of
\* uploaded file, video URL, manual form data; the other sources are not
\* read, and an exception while extracting from the chosen source gives
\* {success: False, error}.
C22_SourceByPriority ==
    Has(pipeline_results.results, "phase1a") =>
        LET r == pipeline_results.results["phase1a"]
        IN  IF input_data.uploaded_file = "unwritable"
            THEN r.success = FALSE /\ Has(r, "error") /\ ~Has(r, "extracted_data")
            ELSE /\ r.success = TRUE
                 /\ r.extracted_data.source = PrioritySource(input_data)

\* C22 witness: all three sources were given and the uploaded file was used.
C22_Witness ==
    /\ Has(pipeline_results.results, "phase1a")
    /\ input_data = [uploaded_file |-> "file", video_url |-> "url", manual_data |-> "mapping"]
    /\ pipeline_results.results["phase1a"].extracted_data.source = "uploaded_file"

(***************************************************************************)
(* The interview of Phase 3.                                               *)
(***************************************************************************)
\* C23: Phase 3 conducts the interview only when the scheduler reported a
\* scheduled call; when the scheduler reported call_scheduled = False the
\* interview_data of Phase 3 is empty.
C23_InterviewOnlyWhenScheduled ==
    (/\ Has(pipeline_results.results, "phase3")
     /\ Get(pipeline_results.results["phase3"], "success", FALSE)
     /\ ~pipeline_results.results["phase3"].scheduling_result.scheduler_call_scheduled) =>
        pipeline_results.results["phase3"].interview_data = EmptyDict

(***************************************************************************)
(* The draft memo of Phase 1B.                                             *)
(***************************************************************************)
Phase1BDone ==
    /\ Has(pipeline_results.results, "phase1b")
    /\ Get(pipeline_results.results["phase1b"], "success", FALSE)

\* The first word or words of a draft recommendation.
DraftTierOf(recommendation) ==
    CASE recommendation = "PASS - Significant verification concerns" -> "PASS"
      [] recommendation = "STRONG INTEREST - Proceed to detailed analysis" -> "STRONG INTEREST"
      [] recommendation = "MODERATE INTEREST - Requires deeper investigation" -> "MODERATE INTEREST"
      [] recommendation = "WEAK INTEREST - High risk factors identified" -> "WEAK INTEREST"

\* Three times the mean of the market, founder and competition sub-scores
\* of a recorded Phase 1B result, in tenths.
DraftScore3(phase1b) ==
    (IF phase1b.verification.market_size_accuracy \in {"accurate", "verified"} THEN 70 ELSE 50)
    + (IF phase1b.verification.founder_credibility \in {"verified", "high"} THEN 80 ELSE 60)
    + (IF phase1b.public_data.competitors <= 3 THEN 60 ELSE 40)

\* C24: the draft recommendation is PASS when there are more than 2 red
\* flags or the confidence score is below 4, whatever the draft score;
\* otherwise STRONG INTEREST for a draft score >= 7, MODERATE INTEREST for
\* >= 5 and WEAK INTEREST below, the draft score being the mean of the
\* market, founder and competition sub-scores.
C24_DraftRecommendationRule ==
    Phase1BDone =>
        LET phase1b == pipeline_results.results["phase1b"]
            concerned == \/ phase1b.verification.red_flags > 2
                         \/ /\ Has(phase1b.verification, "confidence_score")
                            /\ phase1b.verification.confidence_score < 4
        IN  DraftTierOf(phase1b.draft_memo.recommendation) =
                IF concerned THEN "PASS"
                ELSE IF DraftScore3(phase1b) >= 210 THEN "STRONG INTEREST"
                ELSE IF DraftScore3(phase1b) >= 150 THEN "MODERATE INTEREST"
                ELSE "WEAK INTEREST"

\* C24 witness: a draft with the highest score, 7.0, recommended PASS for
\* its three red flags.
C24_Witness ==
    /\ Phase1BDone
    /\ pipeline_results.results["phase1b"].draft_memo.preliminary_score = 70
    /\ pipeline_results.results["phase1b"].verification.red_flags = 3
    /\ DraftTierOf(pipeline_results.results["phase1b"].draft_memo.recommendation) = "PASS"

\* C28: the draft score lies in [5.0, 7.0], WEAK INTEREST is never
\* recommended, and STRONG INTEREST is recommended only when the market
\* size is accurate or verified, the founder credibility is verified or
\* high and at most 3 competitors were found.
C28_DraftScoreRange ==
    Phase1BDone =>
        LET phase1b == pipeline_results.results["phase1b"]
            tier == DraftTierOf(phase1b.draft_memo.recommendation)
        IN  /\ phase1b.draft_memo.preliminary_score >= 50
            /\ phase1b.draft_memo.preliminary_score <= 70
            /\ tier # "WEAK INTEREST"
            /\ tier = "STRONG INTEREST" =>
                   /\ phase1b.verification.market_size_accuracy \in {"accurate", "verified"}
                   /\ phase1b.verification.founder_credibility \in {"verified", "high"}
                   /\ phase1b.public_data.competitors <= 3

\* C28 witness: a draft with the lowest score, 5.0, that is not a PASS.
C28_Witness ==
    /\ Phase1BDone
    /\ pipeline_results.results["phase1b"].draft_memo.preliminary_score = 50
    /\ DraftTierOf(pipeline_results.results["phase1b"].draft_memo.recommendation)
           = "MODERATE INTEREST"

(***************************************************************************)
(* The founder fit score of the mapper without a text generator.           *)
(***************************************************************************)
\* C25: without a text generator each founder's fit score is
\* min(10, 5.0 + 0.3 * experience_years + bonus), the bonus being 2.0 exactly
\* when the founder's domain expertise occurs in the problem statement; a
\* founder given without domain expertise gets no bonus.
C25_FounderFitFormula ==
    (/\ mapped # Pending /\ ~mapped.raised
     /\ mapper_model.mode = "absent"
     /\ Has(extracted_data, "founders") /\ ~NoInputFounders) =>
        \A i \in DOMAIN extracted_data.founders[1] :
            LET founder_info == extracted_data.founders[1][i]
                years == Get(founder_info, "experience_years", <<0>>)[1]
                problem == Get(extracted_data, "problem_statement", << <<>> >>)[1]
                bonus == IF /\ Has(founder_info, "domain_expertise")
                            /\ IsSubstring(Lower(founder_info.domain_expertise[1]),
                                           Lower(problem))
                         THEN 20 ELSE 0
            IN  mapped.value.founders[i].founder_market_fit_score
                    = Min(100, 50 + 3 * years + bonus)

(***************************************************************************)
(* Top-level and nested figures in map_to_startup_profile.                 *)
(***************************************************************************)
\* The entry of key k in the mapping nested under outer, None when either
\* is missing.
NestedEntry(data, outer, k) ==
    IF Has(data, outer) /\ data[outer] # <<>>
    THEN Get(data[outer][1], k, NoneNum) ELSE NoneNum

\* The top-level entry of k holds a value (an explicit 0 included).
TopLevelValue(data, k) == Has(data, k) /\ data[k] # <<>>

\* C26: market_size, revenue and employees take the top-level value whenever
\* one is present, an explicit 0 included, and the nested market_analysis /
\* business_metrics value only when the top-level field is absent;
\* market_size is 0 when neither is present.
C26_TopLevelFirst ==
    (mapped # Pending /\ ~mapped.raised) =>
        /\ TopLevelValue(extracted_data, "market_size") =>
               mapped.value.market_analysis.market_size = extracted_data.market_size[1]
        /\ ~Has(extracted_data, "market_size") =>
               mapped.value.market_analysis.market_size =
                   OrDefault(NestedEntry(extracted_data, "market_analysis", "market_size"), 0)
        /\ \A k \in {"revenue", "employees"} :
               /\ TopLevelValue(extracted_data, k) =>
                      mapped.value.business_metrics[k] = extracted_data[k]
               /\ ~Has(extracted_data, k) =>
                      mapped.value.business_metrics[k]
                          = NestedEntry(extracted_data, "business_metrics", k)

(***************************************************************************)
(* The risk level of a memo.                                               *)
(***************************************************************************)
\* C27: _assess_risks never reports risk_level "high" (at most three risk
\* factors can be triggered), so every memo with a score >= 6.5 is
\* recommended BUY or STRONG BUY.
C27_RiskNeverHigh ==
    (memo # Pending /\ ~memo.raised) =>
        /\ Len(memo.risk_assessment.risk_factors) <= 3
        /\ memo.risk_assessment.risk_level \in {"low", "medium"}
        /\ AtLeastHalves(memo.investment_score, 13) =>
               TierOf(memo.recommendation) \in {"STRONG BUY", "BUY"}

\* C27 witness: a memo with all three risk factors, risk level medium, and
\* a score of at least 6.5 recommended BUY.
C27_Witness ==
    /\ memo # Pending /\ ~memo.raised
    /\ Len(memo.risk_assessment.risk_factors) = 3
    /\ memo.risk_assessment.risk_level = "medium"
    /\ AtLeastHalves(memo.investment_score, 13)
    /\ TierOf(memo.recommendation) = "BUY"

(***************************************************************************)
(* What Phase 4 reports of the refinement agent's outcome.                 *)
(***************************************************************************)
\* C29: when refine_memo returned refinement_completed = False, the result
\* of Phase 4 does not report refinement_completed = True and carries no
\* refined memo.
C29_Phase4ReportsRefinementOutcome ==
    (/\ Has(pipeline_results.results, "phase4")
     /\ calls # <<>>
     /\ calls[Len(calls)].fn = "_execute_phase4"
     /\ ~calls[Len(calls)].refinement_result.refinement_completed) =>
        /\ ~Get(pipeline_results.results["phase4"], "refinement_completed", FALSE)
        /\ ~Has(pipeline_results.results["phase4"], "refined_memo")

(***************************************************************************)
(* The curation decision against the verification score.                   *)
(***************************************************************************)
DecisionRank(decision) ==
    CASE decision = "reject" -> 0
      [] decision = "hold" -> 1
      [] decision = "pass" -> 2

\* canonical_json with its overall_verification_score set to v (tenths).
WithVerificationScore(canonical_json, v) ==
    Put(canonical_json, "verification_metrics", <<[overall_verification_score |-> <<v>>]>>)

VerificationScoreOf(canonical_json) ==
    GetValue(GetValue(canonical_json, "verification_metrics", EmptyDict),
             "overall_verification_score", 100)

ReputationRiskOf(canonical_json) ==
    GetValue(GetValue(canonical_json, "risk_metrics", EmptyDict), "reputation_risk_score", 0)

\* Verification scores below and around the 3.0 threshold, in tenths.
LowerVerificationScores == {0, 10, 29, 30, 50}

\* C30: for a fixed overall score and fixed risk metrics, a lower
\* overall_verification_score never gives a more favourable decision
\* (reject < hold < pass); and the decision is "pass" only when the overall
\* score is >= 7.0, the reputation risk <= 8.0 and the verification score
\* >= 3.0.
C30_DecisionMonotoneInVerification ==
    scoring_result # Pending =>
        LET canonical_json == GetValue(message, "canonical_json", EmptyDict)
        IN  /\ \A lower \in LowerVerificationScores :
                   lower < VerificationScoreOf(canonical_json) =>
                       DecisionRank(_generate_curation_decision(
                                        scoring_result.overall_score,
                                        WithVerificationScore(canonical_json, lower)))
                           <= DecisionRank(scoring_result.decision)
            /\ scoring_result.decision = "pass" =>
                   /\ AtLeastHalves(scoring_result.overall_score, 14)
                   /\ ReputationRiskOf(canonical_json) <= 80
                   /\ VerificationScoreOf(canonical_json) >= 30

====
